---- MODULE Spec2Model ----
(***************************************************************************)
(* Job-fit and content-selection engine of AIJobHelper (backend/services). *)
(*                                                                         *)
(* Every component is modelled from its Python source.  The pure           *)
(* components (validator, selector, matcher, verification gate, decision)  *)
(* are operators; each has a specification whose actions apply the         *)
(* operator to inputs drawn from bounded sets and record the call in       *)
(* `call`.  The bullet library (the one piece of shared mutable state) is  *)
(* the variable `storage`.                                                 *)
(***************************************************************************)
EXTENDS Integers, Sequences, FiniteSets, TLC

VARIABLES
    call,      \* the last invocation: [fn |-> name, ... arguments, ret |-> result]
    heap,      \* Python objects by identity: reference -> SixPointBullet fields
    storage,   \* BulletLibraryManager._storage: id -> BulletLibraryItem (or Absent)
    now,       \* logical clock standing for datetime.now()
    threads    \* concurrent smart_select / delete_bullet callers: thread -> frame

vars == <<call, heap, storage, now, threads>>

NoCall == [fn |-> "none"]
None == "None"
\* no object at a reference, no item under a key
Absent == [absent |-> TRUE]

(***************************************************************************)
(* Generic sequence helpers.                                               *)
(***************************************************************************)
RECURSIVE SumSeq(_)
SumSeq(s) == IF s = <<>> THEN 0 ELSE Head(s) + SumSeq(Tail(s))

Range(s) == {s[i] : i \in DOMAIN s}

Min2(a, b) == IF a <= b THEN a ELSE b
Max2(a, b) == IF a >= b THEN a ELSE b
Abs(x) == IF x < 0 THEN -x ELSE x

(***************************************************************************)
(* Text.  A Python str is modelled as a sequence of tokens [k, n]: k is    *)
(* the lexical class the validator's patterns can tell apart and n the     *)
(* number of characters.                                                   *)
(*   sp     n whitespace characters                                        *)
(*   txt    n characters of prose: begins and ends with a letter, holds    *)
(*          no digit, comma, weak verb or generic phrase                   *)
(*   comma  ","            dots   "..."                                    *)
(*   strong "Led"          weak   "Helped"        gen  "day-to-day"        *)
(*   pct    digits "%"     usd    "$" digits      big  "1,000"             *)
(*   unit   digits "K"     ratio  digits "x"      int  digits              *)
(*   sym    a symbol that is neither \w nor whitespace                     *)
(***************************************************************************)
Tok(k, n) == [k |-> k, n |-> n]
Sp(n) == Tok("sp", n)
Txt(n) == Tok("txt", n)
Comma == Tok("comma", 1)
Dots == Tok("dots", 3)

StrLen(s) == SumSeq([i \in DOMAIN s |-> s[i].n])

\* str.strip(): leading and trailing whitespace removed
RECURSIVE LStrip(_)
LStrip(s) == IF s # <<>> /\ Head(s).k = "sp" THEN LStrip(Tail(s)) ELSE s

RECURSIVE RStrip(_)
RStrip(s) ==
    IF s # <<>> /\ s[Len(s)].k = "sp" THEN RStrip(SubSeq(s, 1, Len(s) - 1)) ELSE s

Strip(s) == RStrip(LStrip(s))

\* re.sub(r'\s+', ' ', text): every run of whitespace becomes one space
RECURSIVE CollapseWs(_)
CollapseWs(s) ==
    IF s = <<>> THEN <<>>
    ELSE IF Head(s).k = "sp"
         THEN <<Sp(1)>> \o CollapseWs(LStrip(Tail(s)))
         ELSE <<Head(s)>> \o CollapseWs(Tail(s))

\* re.sub(r'\s+,', ',', text): whitespace in front of a comma is dropped
RECURSIVE DropWsBeforeComma(_)
DropWsBeforeComma(s) ==
    IF s = <<>> THEN <<>>
    ELSE IF Head(s).k = "sp" /\ LStrip(s) # <<>> /\ Head(LStrip(s)).k = "comma"
         THEN DropWsBeforeComma(LStrip(s))
         ELSE <<Head(s)>> \o DropWsBeforeComma(Tail(s))

\* the first m characters of one token
TokPrefix(t, m) ==
    IF m >= t.n THEN <<t>>
    ELSE IF m = 0 THEN <<>>
    ELSE CASE t.k \in {"sp", "txt", "int"} -> <<Tok(t.k, m)>>
           [] t.k \in {"pct", "unit", "ratio"} -> <<Tok("int", m)>>
           [] t.k = "usd" -> IF m = 1 THEN <<Tok("sym", 1)>> ELSE <<Tok("usd", m)>>
           [] t.k = "big" -> IF m = 1 THEN <<Tok("int", 1)>>
                             ELSE IF m = 2 THEN <<Tok("int", 1), Comma>>
                             ELSE <<Tok("int", 1), Comma, Tok("int", m - 2)>>
           [] t.k = "dots" -> <<Tok("dots", m)>>
           [] OTHER -> <<Txt(m)>>

\* s[:m]
RECURSIVE Prefix(_, _)
Prefix(s, m) ==
    IF s = <<>> \/ m <= 0 THEN <<>>
    ELSE IF Head(s).n >= m THEN TokPrefix(Head(s), m)
         ELSE <<Head(s)>> \o Prefix(Tail(s), m - Head(s).n)

\* a token that begins / ends with a \w character (so no \b at that edge)
WordStart(t) == t.k \in {"txt", "strong", "weak", "gen", "int", "pct", "big", "unit", "ratio"}
WordEnd(t) == t.k \in {"txt", "strong", "weak", "gen", "int", "big", "unit", "ratio", "usd"}

HasKind(s, k) == \E i \in DOMAIN s : s[i].k = k

\* re.findall(r'\b\d+\b', text) is non-empty
HasPlainNumber(s) ==
    \E i \in DOMAIN s :
        /\ s[i].k = "int"
        /\ (i > 1 => ~WordEnd(s[i - 1]))
        /\ (i < Len(s) => ~WordStart(s[i + 1]))

(***************************************************************************)
(* BulletValidator (services/bullet_validator.py).                         *)
(***************************************************************************)
MIN_CHARS == 240
MAX_CHARS == 260
IDEAL_CHARS == 250

\* _assemble_bullet: the six parts joined with punctuation, whitespace cleaned
AssembleBullet(b) ==
    LET t0 == b.action \o <<Sp(1)>> \o b.context
        t1 == IF b.method # <<>> THEN t0 \o <<Comma, Sp(1)>> \o b.method ELSE t0
        t2 == IF b.result # <<>> THEN t1 \o <<Comma, Sp(1)>> \o b.result ELSE t1
        t3 == IF b.impact # <<>> THEN t2 \o <<Comma, Sp(1)>> \o b.impact ELSE t2
        t4 == IF b.outcome # <<>> THEN t3 \o <<Sp(1)>> \o b.outcome ELSE t3
    IN  DropWsBeforeComma(Strip(CollapseWs(t4)))

\* `not part or len(part.strip()) == 0`
PartMissing(p) == p = <<>> \/ StrLen(Strip(p)) = 0

\* _check_all_six_points: (all present, errors appended)
CheckAllSixPoints(b) ==
    LET ok == ~(\E f \in {"action", "context", "method", "result", "impact", "outcome"} :
                    PartMissing(b[f]))
    IN  [ok |-> ok, errors |-> IF ok THEN <<>> ELSE <<"missing_fields">>]

\* _check_character_count: (in band, errors, warnings)
CheckCharacterCount(count) ==
    IF count < MIN_CHARS THEN [ok |-> FALSE, errors |-> <<"too_short">>, warnings |-> <<>>]
    ELSE IF count > MAX_CHARS THEN [ok |-> FALSE, errors |-> <<"too_long">>, warnings |-> <<>>]
    ELSE [ok |-> TRUE, errors |-> <<>>,
          warnings |-> (IF count < MIN_CHARS + 10 THEN <<"close_to_min">> ELSE <<>>)
                       \o (IF count > MAX_CHARS - 10 THEN <<"close_to_max">> ELSE <<>>)]

\* _detect_metrics: the metric types found, plain numbers only as a backup
MetricTypes(text) ==
    LET listed == {k \in {"pct", "usd", "big", "unit", "ratio"} : HasKind(text, k)}
    IN  IF listed # {} THEN listed
        ELSE IF HasPlainNumber(text) THEN {"plain_number"} ELSE {}

DetectMetrics(text) == MetricTypes(text) # {}

FirstWord(s) == IF LStrip(s) = <<>> THEN <<>> ELSE <<Head(LStrip(s))>>

\* _check_action_verb: (result, warnings)
CheckActionVerb(action) ==
    IF action = <<>> THEN [ok |-> FALSE, warnings |-> <<>>]
    ELSE IF HasKind(action, "weak") THEN [ok |-> FALSE, warnings |-> <<"weak_verb">>]
    ELSE IF FirstWord(action) # <<>> /\ FirstWord(action)[1].k = "strong"
         THEN [ok |-> TRUE, warnings |-> <<>>]
    ELSE [ok |-> TRUE, warnings |-> <<"verb_not_impactful">>]

\* _check_generic_language
CheckGenericLanguage(text) ==
    IF HasKind(text, "gen") THEN [ok |-> FALSE, warnings |-> <<"generic_language">>]
    ELSE [ok |-> TRUE, warnings |-> <<>>]

\* _check_result_has_metrics
CheckResultHasMetrics(result) ==
    IF result = <<>> THEN [ok |-> FALSE, errors |-> <<>>]
    ELSE IF ~DetectMetrics(result) THEN [ok |-> FALSE, errors |-> <<"result_no_metrics">>]
    ELSE [ok |-> TRUE, errors |-> <<>>]

\* _check_method_quality / _check_impact_quality: a warning for a brief part
CheckBrief(part, code) ==
    IF part # <<>> /\ StrLen(part) < 10 THEN <<code>> ELSE <<>>

\* _calculate_quality_score with the near-ideal bonus tested as < 5
CalculateQualityScore_StrictBonus(char_count, has_metrics, has_all_six, strong_verb, no_generic, result_has_metrics) ==
    Min2(100, (IF has_all_six THEN 30 ELSE 0)
            + (IF has_metrics THEN 25 ELSE 0)
            + (IF result_has_metrics THEN 20 ELSE 0)
            + (IF MIN_CHARS <= char_count /\ char_count <= MAX_CHARS
               THEN 10 + (IF Abs(char_count - IDEAL_CHARS) < 5 THEN 5 ELSE 0)
               ELSE 0)
            + (IF strong_verb THEN 5 ELSE 0)
            + (IF no_generic THEN 5 ELSE 0))

\* _calculate_quality_score
CalculateQualityScore(char_count, has_metrics, has_all_six, strong_verb, no_generic, result_has_metrics) ==
    LET score == (IF has_all_six THEN 30 ELSE 0)
               + (IF has_metrics THEN 25 ELSE 0)
               + (IF result_has_metrics THEN 20 ELSE 0)
               + (IF MIN_CHARS <= char_count /\ char_count <= MAX_CHARS
                  THEN 10 + (IF Abs(char_count - IDEAL_CHARS) <= 5 THEN 5 ELSE 0)
                  ELSE 0)
               + (IF strong_verb THEN 5 ELSE 0)
               + (IF no_generic THEN 5 ELSE 0)
    IN  Min2(100, score)

\* is_valid computed without the six-points conjunct
IsValid_NoSixPoints(all_six_points, char_count_valid, has_metrics, quality_score) ==
    char_count_valid /\ has_metrics /\ quality_score >= 70

\* the `is_valid = ...` conjunction of validate_bullet
IsValid(all_six_points, char_count_valid, has_metrics, quality_score) ==
    all_six_points /\ char_count_valid /\ has_metrics /\ quality_score >= 70

\* validate_bullet
ValidateBullet(b) ==
    LET full_text == AssembleBullet(b)
        char_count == StrLen(full_text)
        six == CheckAllSixPoints(b)
        cc == CheckCharacterCount(char_count)
        has_metrics == DetectMetrics(full_text)
        verb == CheckActionVerb(b.action)
        generic == CheckGenericLanguage(full_text)
        res == CheckResultHasMetrics(b.result)
        quality_score == CalculateQualityScore(char_count, has_metrics, six.ok, verb.ok,
                                               generic.ok, res.ok)
    IN  [is_valid |-> IsValid(six.ok, cc.ok, has_metrics, quality_score),
         character_count |-> char_count,
         has_metrics |-> has_metrics,
         has_all_six_points |-> six.ok,
         has_strong_verb |-> verb.ok,
         no_generic_language |-> generic.ok,
         quality_score |-> quality_score,
         errors |-> six.errors \o cc.errors
                    \o (IF has_metrics THEN <<>> ELSE <<"no_metrics">>) \o res.errors,
         warnings |-> cc.warnings \o verb.warnings \o generic.warnings
                      \o CheckBrief(b.method, "brief_method")
                      \o CheckBrief(b.impact, "brief_impact"),
         auto_fix_available |-> char_count > MAX_CHARS \/ (~verb.ok /\ b.action # <<>>)]

\* the test `action.lower().split()[0] in WEAK_VERBS` of auto_fix_bullet; split()
\* of a whitespace-only action is empty and the index raises IndexError
FirstWordIsWeak(action) == FirstWord(action)[1].k = "weak"

\* `part[:20] + "..."`
Trimmed(part) == Prefix(part, 20) \o <<Dots>>

MaxObjects == 2
Refs == 1..MaxObjects

\* a reference no live object uses (a new Python object)
NewRef(h) == CHOOSE r \in Refs : h[r] = Absent /\ \A q \in Refs : q < r => h[q] # Absent

\* `fixed = bullet`: no copy, the proposal aliases the argument
CopyDeep_Alias(h, r) == [ref |-> r, heap |-> h]

\* bullet.copy(deep=True): a new object with equal fields
CopyDeep(h, r) == [ref |-> NewRef(h), heap |-> [h EXCEPT ![NewRef(h)] = h[r]]]

\* auto_fix_bullet on the object h[r]: the heap afterwards and what is
\* returned (the proposal's reference and the changes) or raised
AutoFixBullet(h, r) ==
    LET c == CopyDeep(h, r)
        f == c.ref
        h0 == c.heap
        over0 == StrLen(AssembleBullet(h0[f])) > MAX_CHARS
        trim1 == over0 /\ StrLen(h0[f].outcome) > 20
        h1 == IF trim1 THEN [h0 EXCEPT ![f].outcome = Trimmed(h0[f].outcome)] ELSE h0
        over1 == over0 /\ StrLen(AssembleBullet(h1[f])) > MAX_CHARS
        trim2 == over1 /\ StrLen(h1[f].impact) > 20
        h2 == IF trim2 THEN [h1 EXCEPT ![f].impact = Trimmed(h1[f].impact)] ELSE h1
        changes == (IF trim1 THEN <<"trimmed_outcome">> ELSE <<>>)
                   \o (IF trim2 THEN <<"trimmed_impact">> ELSE <<>>)
    IN  IF h2[f].action # <<>> /\ FirstWord(h2[f].action) = <<>>
        THEN [heap |-> h2, raised |-> TRUE, fixed |-> f, changes |-> changes]
        ELSE [heap |-> h2, raised |-> FALSE, fixed |-> f,
              changes |-> changes
                  \o (IF h2[f].action # <<>> /\ FirstWordIsWeak(h2[f].action)
                      THEN <<"suggest_verb">> ELSE <<>>)]

(***************************************************************************)
(* The statements the validator is run on.  SixPointBullet (schemas.py)    *)
(* requires every part to have at least one character; a part may still    *)
(* be whitespace only.  The context carries the padding that moves the     *)
(* assembled length across the [240, 260] band.                            *)
(***************************************************************************)
MaxPad == 24
ActionChoices == {<<Tok("strong", 3)>>, <<Tok("weak", 6)>>, <<Txt(7)>>, <<Sp(1)>>}
ContextChoices == {<<Txt(145 + d)>> : d \in 0..MaxPad} \cup {<<Sp(2)>>}
MethodChoices == {<<Txt(14)>>, <<Sp(1)>>}
ResultChoices == {<<Txt(12), Sp(1), Tok("pct", 3)>>, <<Txt(12), Sp(1), Tok("int", 2)>>,
                  <<Txt(16)>>, <<Sp(3)>>}
ImpactChoices == {<<Txt(28)>>, <<Txt(9), Sp(1), Tok("gen", 10), Sp(1), Txt(7)>>, <<Sp(1)>>}
OutcomeChoices == {<<Txt(24)>>, <<Txt(18), Sp(1), Tok("usd", 3), Sp(1), Txt(4)>>, <<Sp(1)>>}

SixPointBullet(a, c, m, r, i, o) ==
    [action |-> a, context |-> c, method |-> m, result |-> r, impact |-> i, outcome |-> o,
     id |-> None, competency |-> None, company_stage |-> None]

InputBullets ==
    {SixPointBullet(a, c, m, r, i, o) :
        a \in ActionChoices, c \in ContextChoices, m \in MethodChoices,
        r \in ResultChoices, i \in ImpactChoices, o \in OutcomeChoices}

IdleLibrary == storage = <<>> /\ now = 0 /\ threads = <<>>

InitValidator ==
    /\ call = NoCall
    /\ \E b \in InputBullets : heap = [r \in Refs |-> IF r = 1 THEN b ELSE Absent]
    /\ IdleLibrary

\* a caller runs BulletValidator.validate_bullet on a statement it holds
CallValidateBullet ==
    /\ \E r \in Refs :
         /\ heap[r] # Absent
         /\ call' = [fn |-> "validate_bullet", arg |-> r, before |-> heap[r],
                     ret |-> ValidateBullet(heap[r])]
    /\ UNCHANGED <<heap, storage, now, threads>>

\* a caller runs BulletValidator.auto_fix_bullet on a statement it holds
CallAutoFixBullet ==
    \E r \in Refs :
        /\ heap[r] # Absent
        /\ \E q \in Refs : heap[q] = Absent
        /\ LET out == AutoFixBullet(heap, r)
           IN  /\ heap' = IF out.raised  \* the copy is dropped with the frame
                          THEN [q \in Refs |-> IF heap[q] = Absent THEN Absent
                                               ELSE out.heap[q]]
                          ELSE out.heap
               /\ call' = [fn |-> "auto_fix_bullet", arg |-> r, before |-> heap[r],
                           ret |-> [raised |-> out.raised, fixed |-> out.fixed,
                                    changes |-> out.changes]]
        /\ UNCHANGED <<storage, now, threads>>

NextValidator == CallValidateBullet \/ CallAutoFixBullet

SpecValidator == InitValidator /\ [][NextValidator]_vars

(***************************************************************************)
(* Claims about the validator, checked under SpecValidator.                *)
(***************************************************************************)
Parts == {"action", "context", "method", "result", "impact", "outcome"}
Blank(p) == \A i \in DOMAIN p : p[i].k = "sp"
InBand(n) == 240 <= n /\ n <= 260
Validated == call.fn = "validate_bullet"
AutoFixed == call.fn = "auto_fix_bullet"

\* C6: a statement with an empty or whitespace-only part is never reported
\* valid by validate_bullet, whatever its length, metrics and score.
C6_BlankPartNeverValid ==
    (Validated /\ \E f \in Parts : Blank(call.before[f])) => ~call.ret.is_valid

\* C6 witness: a whitespace-only method in a statement that is in band, has a
\* metric and scores 70, so only the six-points check keeps it invalid.
C6_Witness ==
    /\ Validated
    /\ Blank(call.before.method)
    /\ InBand(call.ret.character_count)
    /\ call.ret.has_metrics
    /\ call.ret.quality_score >= 70
    /\ ~call.ret.is_valid

C7_WitnessScoreOnly ==
    /\ Validated
    /\ ~call.ret.is_valid
    /\ call.ret.has_all_six_points
    /\ InBand(call.ret.character_count)
    /\ call.ret.has_metrics
    /\ call.ret.quality_score < 70

\* C9: auto_fix_bullet leaves every field of the statement it is given as it
\* was, and what it returns is another object.
C9_AutoFixKeepsOriginal ==
    AutoFixed =>
        /\ heap[call.arg] = call.before
        /\ ~call.ret.raised =>
              /\ call.ret.fixed # call.arg
              /\ heap[call.ret.fixed] # Absent

\* C9 witness: a call that trimmed the outcome of its proposal.
C9_Witness ==
    /\ AutoFixed
    /\ ~call.ret.raised
    /\ "trimmed_outcome" \in Range(call.ret.changes)
    /\ heap[call.ret.fixed].outcome # call.before.outcome
    /\ heap[call.arg].outcome = call.before.outcome

(***************************************************************************)
(* JDAssessor._determine_decision (services/jd_assessor.py).               *)
(***************************************************************************)
PROCEED == "PROCEED (High Priority)"
PRESENT == "PRESENT TO USER (Medium Priority)"
ARCHIVE == "ARCHIVE (Low Priority)"

\* the two tests taken in the other order
DetermineDecision_PresentFirst(fit_score, interest_level) ==
    IF fit_score >= 75 \/ interest_level >= 7 THEN PRESENT
    ELSE IF fit_score >= 85 /\ interest_level >= 8 THEN PROCEED
    ELSE ARCHIVE

\* _determine_decision
DetermineDecision(fit_score, interest_level) ==
    IF fit_score >= 85 /\ interest_level >= 8 THEN PROCEED
    ELSE IF fit_score >= 75 \/ interest_level >= 7 THEN PRESENT
    ELSE ARCHIVE

\* JDAssessment.fit_score is 0-100 and interest_level 1-10
FitScores == 0..100
InterestLevels == 1..10

IdleValidator == heap = <<>>

InitDecision == call = NoCall /\ IdleValidator /\ IdleLibrary

CallDetermineDecision ==
    /\ \E f \in FitScores, i \in InterestLevels :
         call' = [fn |-> "_determine_decision", fit_score |-> f, interest_level |-> i,
                  ret |-> DetermineDecision(f, i)]
    /\ UNCHANGED <<heap, storage, now, threads>>

NextDecision == CallDetermineDecision

SpecDecision == InitDecision /\ [][NextDecision]_vars

Decided == call.fn = "_determine_decision"

PASSED == "passed"
FAILED == "failed"
WARNING == "warning"

MIN_SUMMARY_CHARS == 360
MAX_SUMMARY_CHARS == 380
MIN_BULLETS_PER_ROLE == 2
MAX_BULLETS_PER_ROLE == 5
TARGET_TOTAL_BULLETS == 13

Check(name, status) == [name |-> name, status |-> status]

NBullets(job) == job.good + job.bad
TotalBullets(data) == SumSeq([i \in DOMAIN data.experience |-> NBullets(data.experience[i])])

\* `s not in data or not data[s]` for the four required sections
MissingSections(data) ==
    (IF data.summary = <<>> THEN {"summary"} ELSE {})
    \cup (IF data.experience = <<>> THEN {"experience"} ELSE {})
    \cup (IF ~data.education THEN {"education"} ELSE {})
    \cup (IF data.skills.n = 0 THEN {"skills"} ELSE {})

VerifySections(data) ==
    IF MissingSections(data) = {} THEN Check("sections", PASSED)
    ELSE IF MissingSections(data) = {"summary"} THEN Check("sections", WARNING)
    ELSE Check("sections", FAILED)

VerifyContact(data) ==
    IF data.name /\ data.email THEN Check("contact", PASSED) ELSE Check("contact", FAILED)

\* (data.get("summary") or "").strip()
SummaryText(data) == Strip(data.summary)

VerifySummaryLength(data) ==
    IF SummaryText(data) = <<>> THEN Check("summary_length", WARNING)
    ELSE IF MIN_SUMMARY_CHARS <= StrLen(SummaryText(data))
            /\ StrLen(SummaryText(data)) <= MAX_SUMMARY_CHARS
         THEN Check("summary_length", PASSED)
    ELSE Check("summary_length", WARNING)

\* re.search(r"(\d+%|\$[\d,]+|\d+\s*(?:k|m|b))", summary, re.IGNORECASE)
VerifySummaryMetrics(data) ==
    IF SummaryText(data) = <<>> THEN Check("summary_metrics", WARNING)
    ELSE IF \E k \in {"pct", "usd", "unit"} : HasKind(SummaryText(data), k)
         THEN Check("summary_metrics", WARNING)
    ELSE Check("summary_metrics", PASSED)

VerifyBullets(data) ==
    IF data.experience = <<>> THEN <<Check("bullets", WARNING)>>
    ELSE [i \in DOMAIN data.experience |->
            IF NBullets(data.experience[i]) = 0 \/ data.experience[i].bad > 0
            THEN Check("bullets_i", WARNING) ELSE Check("bullets_i", PASSED)]

VerifyBulletCounts(data) ==
    IF (\E i \in DOMAIN data.experience :
            ~(MIN_BULLETS_PER_ROLE <= NBullets(data.experience[i])
              /\ NBullets(data.experience[i]) <= MAX_BULLETS_PER_ROLE))
       \/ TotalBullets(data) # TARGET_TOTAL_BULLETS
    THEN Check("bullet_counts", WARNING) ELSE Check("bullet_counts", PASSED)

VerifyMetricDiversity(data) ==
    IF TotalBullets(data) = 0 THEN Check("metric_diversity", WARNING)
    ELSE IF data.diversity = "repeated_type" THEN Check("metric_diversity", WARNING)
    ELSE IF data.diversity = "missing_type" THEN Check("metric_diversity", WARNING)
    ELSE Check("metric_diversity", PASSED)

VerifyActionVerbUniqueness(data) ==
    IF TotalBullets(data) = 0 THEN Check("action_verbs", WARNING)
    ELSE IF ~data.verbs_unique THEN Check("action_verbs", WARNING)
    ELSE Check("action_verbs", PASSED)

VerifySkills(data) ==
    IF data.skills.n = 0 THEN Check("skills", FAILED)
    ELSE IF data.skills.soft THEN Check("skills", WARNING)
    ELSE IF data.skills.n < 5 THEN Check("skills", WARNING)
    ELSE Check("skills", PASSED)

VerifyBulletSymbols(data) ==
    IF \E i \in DOMAIN data.experience : data.experience[i].dashed
    THEN Check("bullet_symbols", WARNING) ELSE Check("bullet_symbols", PASSED)

ResumeChecks(data) ==
    <<VerifySections(data), VerifyContact(data), VerifySummaryLength(data),
      VerifySummaryMetrics(data)>>
    \o VerifyBullets(data)
    \o <<VerifyBulletCounts(data), VerifyMetricDiversity(data),
         VerifyActionVerbUniqueness(data), VerifySkills(data), VerifyBulletSymbols(data)>>

CountStatus(checks, st) == Cardinality({i \in DOMAIN checks : checks[i].status = st})

\* score >= 80 for score = (passed / len(checks)) * 100, and 0 without checks
ScoreAtLeast80(checks) ==
    checks # <<>> /\ CountStatus(checks, PASSED) * 100 >= 80 * Len(checks)

\* round(score, 1), in tenths (no tie arises below sixteen checks)
ScoreTenths(checks) ==
    IF checks = <<>> THEN 0
    ELSE (CountStatus(checks, PASSED) * 2000 + Len(checks)) \div (2 * Len(checks))

\* the status from the score alone, as the cover-letter and outreach gates do
ScoreStatus(checks) == IF ScoreAtLeast80(checks) THEN PASSED ELSE WARNING

\* ResumeVerifier's report with the failed checks not looked at
ResumeReport_ScoreOnly(checks) ==
    [document_type |-> "resume", overall_status |-> ScoreStatus(checks),
     score |-> ScoreTenths(checks), checks |-> checks, auto_retry_recommended |-> FALSE]

\* ResumeVerifier.verify, from `passed = ...` on
ResumeReport(checks) ==
    LET failed_critical == \E i \in DOMAIN checks : checks[i].status = FAILED
    IN  [document_type |-> "resume",
         overall_status |-> IF failed_critical THEN FAILED ELSE ScoreStatus(checks),
         score |-> ScoreTenths(checks), checks |-> checks,
         auto_retry_recommended |-> failed_critical]

ResumeVerify(data) == ResumeReport(ResumeChecks(data))

\* CoverLetterVerifier.verify; job_data says whether it is given (truthy) and
\* whether it names a company and a title, the letter whether it mentions them
CoverLetterChecks(cl, job_data) ==
    <<Check("lines", IF 8 <= cl.lines /\ cl.lines <= 12 THEN PASSED ELSE WARNING),
      Check("words", IF 150 <= cl.words /\ cl.words <= 200 THEN PASSED ELSE WARNING),
      Check("paragraphs", IF cl.paragraphs = 4 THEN PASSED ELSE WARNING)>>
    \o (IF ~job_data.given THEN <<>>
        ELSE <<Check("personalization",
                     IF job_data.company /\ cl.has_company THEN PASSED ELSE WARNING),
               Check("hook", IF job_data.title /\ cl.has_title THEN PASSED ELSE WARNING)>>)
    \o <<Check("cta", IF cl.has_cta THEN PASSED ELSE WARNING)>>

CoverLetterVerify(cl, job_data) ==
    LET checks == CoverLetterChecks(cl, job_data)
    IN  [document_type |-> "cover_letter", overall_status |-> ScoreStatus(checks),
         score |-> ScoreTenths(checks), checks |-> checks, auto_retry_recommended |-> FALSE]

\* OutreachVerifier.TARGETS.get(tier, (400, 800))
OutreachTargets(tier) ==
    CASE tier = "tier_1" -> <<600, 800>>
      [] tier = "tier_2" -> <<400, 600>>
      [] tier = "tier_3" -> <<300, 500>>
      [] OTHER -> <<400, 800>>

OutreachChecks(msg, tier, job_data) ==
    <<Check("concise", IF OutreachTargets(tier)[1] <= msg.chars
                          /\ msg.chars <= OutreachTargets(tier)[2]
                       THEN PASSED ELSE WARNING)>>
    \o (IF ~job_data.given THEN <<>>
        ELSE <<Check("customized",
                     IF job_data.company /\ msg.has_company THEN PASSED ELSE WARNING)>>)
    \o <<Check("compelling", IF msg.has_cta THEN PASSED ELSE WARNING)>>

OutreachVerify(msg, tier, job_data) ==
    LET checks == OutreachChecks(msg, tier, job_data)
    IN  [document_type |-> "outreach", overall_status |-> ScoreStatus(checks),
         score |-> ScoreTenths(checks), checks |-> checks, auto_retry_recommended |-> FALSE]

MaxRoles == 3
RoleChoices ==
    {[good |-> 0, bad |-> 0, dashed |-> FALSE], [good |-> 4, bad |-> 0, dashed |-> FALSE],
     [good |-> 5, bad |-> 0, dashed |-> FALSE], [good |-> 1, bad |-> 1, dashed |-> TRUE]}

RECURSIVE SeqsUpTo(_, _)
SeqsUpTo(S, n) ==
    IF n = 0 THEN {<<>>}
    ELSE SeqsUpTo(S, n - 1) \cup {Append(q, x) : q \in {p \in SeqsUpTo(S, n - 1) : Len(p) = n - 1}, x \in S}

ResumeInputs ==
    [name : BOOLEAN, email : BOOLEAN,
     summary : {<<>>, <<Txt(370)>>, <<Txt(350), Sp(1), Tok("pct", 3)>>},
     experience : SeqsUpTo(RoleChoices, MaxRoles),
     education : BOOLEAN,
     skills : {[n |-> 0, soft |-> FALSE], [n |-> 6, soft |-> FALSE], [n |-> 6, soft |-> TRUE]},
     diversity : {"repeated_type", "missing_type", "good"},
     verbs_unique : BOOLEAN]

JobDataInputs ==
    {[given |-> FALSE, company |-> FALSE, title |-> FALSE]}
    \cup [given : {TRUE}, company : BOOLEAN, title : BOOLEAN]

CoverLetterInputs ==
    [lines : {7, 8, 13}, words : {149, 150, 201}, paragraphs : {3, 4},
     has_company : BOOLEAN, has_title : BOOLEAN, has_cta : BOOLEAN]

OutreachInputs ==
    [chars : {299, 300, 400, 500, 501, 600, 800, 801}, has_company : BOOLEAN, has_cta : BOOLEAN]

\* the caller's arguments, held as the one object handed to the verifier
VerifyInputs ==
    {[kind |-> "resume", data |-> d] : d \in ResumeInputs}
    \cup {[kind |-> "cover_letter", data |-> cl, job_data |-> jd] :
            cl \in CoverLetterInputs, jd \in JobDataInputs}
    \cup {[kind |-> "outreach", data |-> msg, tier |-> tier, job_data |-> jd] :
            msg \in OutreachInputs, tier \in {"tier_1", "tier_2", "tier_3", "email"},
            jd \in JobDataInputs}

InitVerify ==
    /\ call = NoCall
    /\ \E input \in VerifyInputs : heap = <<input>>
    /\ IdleLibrary

CallResumeVerify ==
    /\ heap[1].kind = "resume"
    /\ call' = [fn |-> "ResumeVerifier.verify", data |-> heap[1].data,
                ret |-> ResumeVerify(heap[1].data)]
    /\ UNCHANGED <<heap, storage, now, threads>>

CallCoverLetterVerify ==
    /\ heap[1].kind = "cover_letter"
    /\ call' = [fn |-> "CoverLetterVerifier.verify", data |-> heap[1].data,
                job_data |-> heap[1].job_data,
                ret |-> CoverLetterVerify(heap[1].data, heap[1].job_data)]
    /\ UNCHANGED <<heap, storage, now, threads>>

CallOutreachVerify ==
    /\ heap[1].kind = "outreach"
    /\ call' = [fn |-> "OutreachVerifier.verify", data |-> heap[1].data,
                tier |-> heap[1].tier, job_data |-> heap[1].job_data,
                ret |-> OutreachVerify(heap[1].data, heap[1].tier, heap[1].job_data)]
    /\ UNCHANGED <<heap, storage, now, threads>>

NextVerify == CallResumeVerify \/ CallCoverLetterVerify \/ CallOutreachVerify

SpecVerify == InitVerify /\ [][NextVerify]_vars

Verified ==
    call.fn \in {"ResumeVerifier.verify", "CoverLetterVerifier.verify", "OutreachVerifier.verify"}

\* C8: for each verifier the report is failed exactly when some check is
\* failed; otherwise passed when passed checks / total checks x 100 >= 80 and
\* warning otherwise; auto_retry_recommended is true exactly when the report
\* is failed; and a resume without email is failed with auto_retry_recommended.
C8_OverallStatus ==
    Verified =>
        LET r == call.ret
            anyFailed == \E i \in DOMAIN r.checks : r.checks[i].status = FAILED
            passed == Cardinality({i \in DOMAIN r.checks : r.checks[i].status = PASSED})
        IN  /\ (r.overall_status = FAILED) <=> anyFailed
            /\ ~anyFailed =>
                 r.overall_status = IF passed * 100 >= 80 * Len(r.checks) THEN PASSED ELSE WARNING
            /\ r.auto_retry_recommended <=> (r.overall_status = FAILED)
            /\ (call.fn = "ResumeVerifier.verify" /\ ~call.data.email) =>
                 (r.overall_status = FAILED /\ r.auto_retry_recommended)

\* C8 witness: a resume that lacks only its email: the contact check is the
\* one check not passed, the score is above 80, and the report is failed.
C8_Witness ==
    /\ call.fn = "ResumeVerifier.verify"
    /\ ~call.data.email
    /\ \A i \in DOMAIN call.ret.checks :
          call.ret.checks[i].name # "contact" => call.ret.checks[i].status = PASSED
    /\ call.ret.score >= 800
    /\ call.ret.overall_status = FAILED
    /\ call.ret.auto_retry_recommended

(***************************************************************************)
(* Competency taxonomy and bullet selection (jd_assessor.py,               *)
(* bullet_library.py, bullet_framework.py).                                *)
(*                                                                         *)
(* A job description is the set of words written in it.  A bullet's text   *)
(* is a record: head is text[:50], tail the rest, words the taxonomy       *)
(* keywords it contains as whole words, analysis the score                 *)
(* BulletFramework.analyze_bullet gives it, in tenths.  Weights are exact  *)
(* fractions [num, den]; scores are in tenths.                             *)
(***************************************************************************)
AreaOrder == <<"technical_skills", "leadership", "product_strategy", "communication", "execution">>

\* JDAssessor.COMPETENCY_AREAS, weight in hundredths
COMPETENCY_AREAS ==
    [technical_skills |->
        [weight |-> 25,
         keywords |-> <<"python", "javascript", "java", "sql", "react", "node", "aws",
                        "docker", "kubernetes", "api", "database", "cloud", "machine learning",
                        "data analysis", "software development", "programming", "coding">>],
     leadership |->
        [weight |-> 20,
         keywords |-> <<"lead", "manage", "mentor", "coach", "direct", "oversee",
                        "team", "cross-functional", "stakeholder", "influence">>],
     product_strategy |->
        [weight |-> 20,
         keywords |-> <<"product", "roadmap", "strategy", "vision", "prioritize",
                        "user research", "market analysis", "competitive", "growth">>],
     communication |->
        [weight |-> 15,
         keywords |-> <<"communicate", "present", "collaborate", "negotiate",
                        "stakeholder", "documentation", "report", "articulate">>],
     execution |->
        [weight |-> 20,
         keywords |-> <<"deliver", "execute", "implement", "launch", "ship",
                        "agile", "scrum", "project management", "deadline", "on-time">>]]

\* keyword in text, for the words a job description is built from
Contains(word, keyword) == keyword = word \/ (word = "javascript" /\ keyword = "java")

\* sum(1 for kw in keywords if kw.lower() in jd_lower); every word of the
\* job text occurs once, so jd_lower.count(kw) sums to the same number
Mentions(keywords, job) ==
    Cardinality({i \in DOMAIN keywords : \E w \in job : Contains(w, keywords[i])})

\* product of the areas' keyword counts: a common denominator for the weights
RECURSIVE KeywordCountProduct(_)
KeywordCountProduct(k) ==
    IF k = 0 THEN 1 ELSE Len(COMPETENCY_AREAS[AreaOrder[k]].keywords) * KeywordCountProduct(k - 1)

SumOver(f) == SumSeq([i \in 1..Len(AreaOrder) |-> f[AreaOrder[i]]])

\* BulletLibrary._compute_competency_weights
ComputeCompetencyWeights(job) ==
    LET P == KeywordCountProduct(Len(AreaOrder))
        raw == [a \in Range(AreaOrder) |->
                  LET config == COMPETENCY_AREAS[a]
                      mentions == Mentions(config.keywords, job)
                  IN  config.weight * mentions * (P \div Max2(Len(config.keywords), 1))]
        base == [a \in Range(AreaOrder) |-> COMPETENCY_AREAS[a].weight * P]
    IN  [den |-> 100 * P, num |-> IF SumOver(raw) = 0 THEN base ELSE raw]

\* round(n / d) to the nearest integer, ties to even
RoundHalfEven(n, d) ==
    LET q == n \div d
        r == n % d
    IN  IF 2 * r < d THEN q
        ELSE IF 2 * r > d THEN q + 1
        ELSE IF q % 2 = 0 THEN q ELSE q + 1

\* the elements of s ordered by key, largest first, equal keys in their
\* order in s: sorted(s, key=..., reverse=True)
SortedDesc(s, key) ==
    LET before(i, j) == key[i] > key[j] \/ (key[i] = key[j] /\ i < j)
        rank(i) == 1 + Cardinality({j \in DOMAIN s : before(j, i)})
    IN  [r \in DOMAIN s |-> s[CHOOSE i \in DOMAIN s : rank(i) = r]]

\* BulletFramework.calculate_competency_weights; competency_areas is a list
\* of [name, keywords]; the result is sorted by weight, largest first
CalculateCompetencyWeights(job, competency_areas) ==
    LET mentions == [i \in DOMAIN competency_areas |-> Mentions(competency_areas[i].keywords, job)]
        total_mentions == SumSeq(mentions)
        weighted == [i \in DOMAIN competency_areas |->
                       [name |-> competency_areas[i].name,
                        weight |-> IF total_mentions > 0
                                   THEN [num |-> RoundHalfEven(100 * mentions[i], total_mentions),
                                         den |-> 100]
                                   ELSE [num |-> 1, den |-> Len(competency_areas)]]]
    IN  SortedDesc(weighted, [i \in DOMAIN weighted |-> weighted[i].weight.num])

\* BulletLibrary._calculate_distribution; an area that is no key of the
\* dict has 0 here
CalculateDistribution(weights, total) ==
    LET total_weight == SumOver(weights.num)
        floors == [a \in Range(AreaOrder) |->
                     IF weights.num[a] > 0 THEN (weights.num[a] * total) \div total_weight ELSE 0]
        remaining == total - SumOver(floors)
        top == CHOOSE i \in DOMAIN AreaOrder :
                  /\ \A j \in DOMAIN AreaOrder : floors[AreaOrder[j]] <= floors[AreaOrder[i]]
                  /\ \A j \in 1..(i - 1) : floors[AreaOrder[j]] < floors[AreaOrder[i]]
        general == [a \in {"general"} |-> 0]
    IN  IF \A a \in Range(AreaOrder) : weights.num[a] <= 0
        THEN [a \in Range(AreaOrder) |-> 0] @@ [a \in {"general"} |-> total]
        ELSE IF remaining > 0 /\ SumOver(floors) > 0
        THEN [floors EXCEPT ![AreaOrder[top]] = @ + remaining] @@ general
        ELSE floors @@ general

\* BulletLibrary._normalize_bullets
NormalizeBullets(bullets) ==
    LET keep == SelectSeq(bullets, LAMBDA b : b.text.head # "")
    IN  [i \in DOMAIN keep |->
           [id |-> IF keep[i].id \in {None, ""} THEN keep[i].text.head ELSE keep[i].id,
            text |-> keep[i].text, tags |-> keep[i].tags, competency |-> keep[i].competency]]

\* BulletLibrary._keyword_score, in tenths
KeywordScore(text, tags, keywords) ==
    LET matched == Cardinality({i \in DOMAIN keywords : keywords[i] \in text.words})
        tag_hits == Cardinality({i \in DOMAIN tags : tags[i] \in Range(keywords)})
    IN  IF keywords = <<>> THEN 0
        ELSE Min2(1000, RoundHalfEven((2 * matched + tag_hits) * 1000, 2 * Len(keywords)))

\* BulletLibrary._score_bullets and _best_area
ScoreBullets(bullets) ==
    [i \in DOMAIN bullets |->
       LET b == bullets[i]
           area_scores == [a \in Range(AreaOrder) |->
               LET keyword_score == KeywordScore(b.text, b.tags, COMPETENCY_AREAS[a].keywords)
                   competency_boost == IF b.competency = a THEN 10 ELSE 0
               IN  Min2(1000, RoundHalfEven(keyword_score * 6 + b.text.analysis * 4
                                             + competency_boost * 100, 10))]
           best == CHOOSE k \in DOMAIN AreaOrder :
                      /\ \A j \in DOMAIN AreaOrder : area_scores[AreaOrder[j]] <= area_scores[AreaOrder[k]]
                      /\ \A j \in 1..(k - 1) : area_scores[AreaOrder[j]] < area_scores[AreaOrder[k]]
       IN  [id |-> b.id, text |-> b.text, area_scores |-> area_scores,
            best_area |-> AreaOrder[best], best_score |-> area_scores[AreaOrder[best]]]]

SelectedIds(selected) == {selected[i].id : i \in DOMAIN selected}

\* the inner loop of _select_by_distribution: walk the candidates, skip the
\* ids already selected, stop after target picks
RECURSIVE PickForArea(_, _, _, _, _, _)
PickForArea(candidates, i, selected, picked, target, area) ==
    IF i > Len(candidates) THEN selected
    ELSE IF candidates[i].id \in SelectedIds(selected)
    THEN PickForArea(candidates, i + 1, selected, picked, target, area)
    ELSE LET bullet == candidates[i]
             score == IF area = "general" THEN 0 ELSE bullet.area_scores[area]
             next == Append(selected, [id |-> bullet.id, text |-> bullet.text,
                                       competency |-> area, score |-> score])
         IN  IF picked + 1 >= target THEN next
             ELSE PickForArea(candidates, i + 1, next, picked + 1, target, area)

\* the loop over distribution.items(), in the dict's order
RECURSIVE SelectAreas(_, _, _, _)
SelectAreas(scored, distribution, k, selected) ==
    LET order == AreaOrder \o <<"general">>
        area == order[k]
        key == [i \in DOMAIN scored |->
                  IF area = "general" THEN scored[i].best_score ELSE scored[i].area_scores[area]]
    IN  IF k > Len(order) THEN selected
        ELSE IF distribution[area] = 0 THEN SelectAreas(scored, distribution, k + 1, selected)
        ELSE SelectAreas(scored, distribution, k + 1,
                PickForArea(SortedDesc(scored, key), 1, selected, 0, distribution[area], area))

\* the backfill of _select_by_distribution: remaining is filtered once,
\* against the ids selected by the area loop
Backfill(scored, selected, total) ==
    LET rest == SelectSeq(scored, LAMBDA b : b.id \notin SelectedIds(selected))
        remaining == SortedDesc(rest, [i \in DOMAIN rest |-> rest[i].best_score])
        take == Min2(Len(remaining), Max2(total - Len(selected), 0))
    IN  selected \o [i \in 1..take |->
                       [id |-> remaining[i].id, text |-> remaining[i].text,
                        competency |-> remaining[i].best_area, score |-> remaining[i].best_score]]

\* BulletLibrary._select_by_distribution
SelectByDistribution(scored, distribution, total) ==
    Backfill(scored, SelectAreas(scored, distribution, 1, <<>>), total)

\* BulletLibrary.select_for_job
SelectForJob(bullets, job_description, count) ==
    LET cleaned_bullets == NormalizeBullets(bullets)
        weights == ComputeCompetencyWeights(job_description)
        distribution == CalculateDistribution(weights, count)
        selected == SelectByDistribution(ScoreBullets(cleaned_bullets), distribution, count)
    IN  IF cleaned_bullets = <<>>
        THEN [selected_bullets |-> <<>>,
              distribution |-> [a \in Range(AreaOrder) \cup {"general"} |-> 0],
              total_requested |-> count,
              total_selected |-> 0, recommendations |-> <<"add_bullets">>]
        ELSE [selected_bullets |-> selected, distribution |-> distribution,
              total_requested |-> count, total_selected |-> Len(selected),
              recommendations |-> IF Len(selected) < count THEN <<"only_available">> ELSE <<>>]

\* bullet texts: two that agree on their first 50 characters, a short one,
\* a one-letter one and a blank one (missing, empty or only whitespace)
Text1 ==
    [head |-> "Led the python and sql platform migration for the ",
     tail |-> "whole engineering group, reducing costs by 20%",
     words |-> {"python", "sql"}, analysis |-> 450]
Text2 ==
    [head |-> "Led the python and sql platform migration for the ",
     tail |-> "whole product group to deliver the roadmap",
     words |-> {"python", "sql", "product", "roadmap", "deliver"}, analysis |-> 117]
Text3 ==
    [head |-> "Managed stakeholder reports", tail |-> "", words |-> {"stakeholder"}, analysis |-> 117]
Text4 == [head |-> "x", tail |-> "", words |-> {}, analysis |-> 0]
TextBlank == [head |-> "", tail |-> "", words |-> {}, analysis |-> 0]

Bullet(id, text, tags, competency) ==
    [id |-> id, text |-> text, tags |-> tags, competency |-> competency]

BulletChoices ==
    {Bullet("a", Text1, <<>>, None), Bullet("a", Text2, <<>>, None),
     Bullet("b", Text3, <<"stakeholder">>, "leadership"),
     Bullet(None, Text1, <<>>, None), Bullet(None, Text2, <<>>, "execution"),
     Bullet(None, TextBlank, <<>>, None), Bullet(None, Text4, <<"python">>, None)}

MaxPool == 2
MaxCount == 4

JobVocabulary == {"python", "javascript", "sql", "lead", "stakeholder", "product", "deliver"}
JobTexts == SUBSET JobVocabulary
JobChoices ==
    {{}, {"python"}, {"javascript"}, {"stakeholder"}, {"python", "sql", "lead"},
     {"product", "lead", "stakeholder", "deliver", "python"}}

InitSelect ==
    /\ call = NoCall
    /\ \E bullets \in SeqsUpTo(BulletChoices, MaxPool), job \in JobChoices, count \in 0..MaxCount :
          heap = <<[bullets |-> bullets, job_description |-> job, count |-> count]>>
    /\ IdleLibrary

CallSelectForJob ==
    /\ call' = [fn |-> "select_for_job", bullets |-> heap[1].bullets,
                job_description |-> heap[1].job_description, count |-> heap[1].count,
                ret |-> SelectForJob(heap[1].bullets, heap[1].job_description, heap[1].count)]
    /\ UNCHANGED <<heap, storage, now, threads>>

NextSelect == CallSelectForJob

SpecSelect == InitSelect /\ [][NextSelect]_vars

\* the taxonomy as the list calculate_competency_weights takes
Taxonomy(n) == [i \in 1..n |-> [name |-> AreaOrder[i], keywords |-> COMPETENCY_AREAS[AreaOrder[i]].keywords]]

InitWeights ==
    /\ call = NoCall
    /\ \E job \in JobTexts \cup {{"finance", "audit"}}, n \in 1..Len(AreaOrder) :
          heap = <<[job_description |-> job, competency_areas |-> Taxonomy(n)]>>
    /\ IdleLibrary

CallComputeCompetencyWeights ==
    /\ call' = [fn |-> "_compute_competency_weights", job_description |-> heap[1].job_description,
                ret |-> ComputeCompetencyWeights(heap[1].job_description)]
    /\ UNCHANGED <<heap, storage, now, threads>>

CallCalculateCompetencyWeights ==
    /\ call' = [fn |-> "calculate_competency_weights", job_description |-> heap[1].job_description,
                competency_areas |-> heap[1].competency_areas,
                ret |-> CalculateCompetencyWeights(heap[1].job_description, heap[1].competency_areas)]
    /\ UNCHANGED <<heap, storage, now, threads>>

NextWeights == CallComputeCompetencyWeights \/ CallCalculateCompetencyWeights

SpecWeights == InitWeights /\ [][NextWeights]_vars

Selected == call.fn = "select_for_job"

\* the ids of the usable items of a pool: blank texts dropped, id = the
\* given id or the first 50 characters of the text
UsableIds(bullets) ==
    {IF bullets[i].id \in {None, ""} THEN bullets[i].text.head ELSE bullets[i].id :
        i \in {j \in DOMAIN bullets : bullets[j].text.head # ""}}

\* C1: select_for_job returns at most N items and no two returned items
\* share an id, also when the pool holds items with equal ids.
C1_AtMostNNoDuplicateIds ==
    Selected =>
        LET sel == call.ret.selected_bullets
        IN  /\ Len(sel) <= call.count
            /\ \A i, j \in DOMAIN sel : sel[i].id = sel[j].id => i = j

\* C1, the part that holds: never more than N items.
C1_AtMostN == Selected => Len(call.ret.selected_bullets) <= call.count

\* C1 witness of the bound: a pool with more usable items than requested.
C1_AtMostNWitness ==
    /\ Selected
    /\ call.count >= 1
    /\ Cardinality(UsableIds(call.bullets)) > call.count
    /\ Len(call.ret.selected_bullets) = call.count

\* C2: exactly N items when the pool can supply N unique usable items;
\* otherwise every available item, total_selected < total_requested and a
\* recommendation reporting the shortfall; no shortfall when N are returned.
C2_ExactlyNOrShortfall ==
    Selected =>
        LET r == call.ret
            available == Cardinality(UsableIds(call.bullets))
        IN  /\ available >= call.count =>
                 (Len(r.selected_bullets) = call.count)
            /\ available < call.count =>
                 /\ Len(r.selected_bullets) = available
                 /\ r.total_selected < r.total_requested
                 /\ r.recommendations # <<>>
            /\ Len(r.selected_bullets) = call.count /\ call.count > 0 => r.recommendations = <<>>

\* C2 on pools whose usable items have pairwise different ids.
C2_UniquePool ==
    (Selected /\ Cardinality(UsableIds(call.bullets)) = Len(NormalizeBullets(call.bullets)))
        => C2_ExactlyNOrShortfall

\* C5: the weight vector of either matcher is non-empty and sums to 1.
C5_WeightsSumToOne ==
    /\ call.fn = "_compute_competency_weights" =>
          SumOver(call.ret.num) = call.ret.den
    /\ call.fn = "calculate_competency_weights" =>
          /\ call.ret # <<>>
          /\ \A i \in DOMAIN call.ret : call.ret[i].weight.den = call.ret[1].weight.den
          /\ SumSeq([i \in DOMAIN call.ret |-> call.ret[i].weight.num]) = call.ret[1].weight.den

(***************************************************************************)
(* The bullet library (bullet_library_manager.py).  storage is the class   *)
(* dict _storage as the sequence of its items in insertion order; an item  *)
(* is [id, bullet, usage_count, last_used, quality_score]; last_used is    *)
(* <<>> for None and <<t>> for the text of the time t; an absent or empty  *)
(* distribution list is <<>>.  A job description is the set of words       *)
(* written in it; the library's texts hold none of the taxonomy keywords.  *)
(***************************************************************************)
\* CompetencyAssessor.COMPETENCY_KEYWORDS, in the dict's order
COMPETENCY_KEYWORDS ==
    <<[name |-> "Product Strategy",
       keywords |-> <<"product vision", "roadmap", "strategy", "prioritization",
                      "product-market fit", "pmf", "market analysis", "competitive analysis",
                      "go-to-market", "gtm", "positioning", "product launch">>],
      [name |-> "Technical Skills",
       keywords |-> <<"engineering", "technical", "architecture", "api", "backend",
                      "frontend", "full-stack", "database", "cloud", "aws", "azure",
                      "python", "javascript", "react", "node", "sql", "system design">>],
      [name |-> "Data & Analytics",
       keywords |-> <<"analytics", "metrics", "kpis", "data-driven", "ab testing",
                      "sql", "tableau", "looker", "experiments", "analysis",
                      "reporting", "insights", "business intelligence", "bi">>],
      [name |-> "Stakeholder Management",
       keywords |-> <<"stakeholder", "cross-functional", "alignment", "executive",
                      "communication", "collaboration", "influence", "consensus",
                      "presentations", "relationship building">>],
      [name |-> "Leadership & Team",
       keywords |-> <<"lead", "mentor", "coach", "team", "manage", "direct",
                      "hire", "hiring", "people management", "leadership",
                      "delegation", "motivation", "team building">>],
      [name |-> "User Research & Design",
       keywords |-> <<"user research", "ux", "ui", "usability", "user testing",
                      "customer interviews", "personas", "journey mapping",
                      "design thinking", "wireframes", "prototypes">>],
      [name |-> "Execution & Delivery",
       keywords |-> <<"execution", "delivery", "agile", "scrum", "sprint",
                      "project management", "release", "launch", "ship",
                      "implementation", "timelines", "dependencies">>],
      [name |-> "Business Acumen",
       keywords |-> <<"revenue", "profit", "roi", "business model", "pricing",
                      "market", "customer acquisition", "retention", "growth",
                      "business case", "p&l", "budget">>],
      [name |-> "Communication",
       keywords |-> <<"communication", "presentation", "documentation", "writing",
                      "articulate", "storytelling", "influence", "negotiation",
                      "public speaking", "executive communication">>],
      [name |-> "Problem Solving",
       keywords |-> <<"problem solving", "analytical", "critical thinking",
                      "troubleshooting", "root cause", "creative", "innovative",
                      "strategic thinking", "decision making">>]>>

\* CompetencyAssessor._extract_competencies: the areas with a keyword in
\* the text, by score, largest first
ExtractCompetencies(job) ==
    LET scores == [i \in DOMAIN COMPETENCY_KEYWORDS |-> Mentions(COMPETENCY_KEYWORDS[i].keywords, job)]
        found == SelectSeq([i \in DOMAIN COMPETENCY_KEYWORDS |->
                              [name |-> COMPETENCY_KEYWORDS[i].name, score |-> scores[i]]],
                           LAMBDA c : c.score > 0)
    IN  SortedDesc(found, [i \in DOMAIN found |-> found[i].score])

Keys(st) == {st[i].id : i \in DOMAIN st}
Item(st, id) == st[CHOOSE i \in DOMAIN st : st[i].id = id]

\* cls._storage[bullet_id] = item: a stored key keeps its place
Store(st, item) ==
    IF item.id \in Keys(st)
    THEN [i \in DOMAIN st |-> IF st[i].id = item.id THEN item ELSE st[i]]
    ELSE Append(st, item)

\* BulletLibraryManager.add_bullet; uuid is the value of str(uuid.uuid4())
AddBullet(st, bullet, validate, uuid) ==
    LET validation == ValidateBullet(bullet)
        bullet_id == IF bullet.id \in {None, ""} THEN uuid ELSE bullet.id
        library_item == [id |-> bullet_id, bullet |-> bullet, usage_count |-> 0,
                         last_used |-> <<>>,
                         quality_score |-> IF validate THEN validation.quality_score ELSE 0]
    IN  IF validate /\ ~validation.is_valid
        THEN [storage |-> st, ret |-> [success |-> FALSE, bullet_id |-> None]]
        ELSE [storage |-> Store(st, library_item),
              ret |-> [success |-> TRUE, bullet_id |-> bullet_id]]

\* BulletLibraryManager.get_bullet: the item, or Absent for None
GetBullet(st, bullet_id) == IF bullet_id \in Keys(st) THEN Item(st, bullet_id) ELSE Absent

\* update_bullet assigning the statement before it is validated
UpdateBullet_AssignFirst(st, bullet_id, bullet, validate) ==
    LET validation == ValidateBullet(bullet)
        existing == Item(st, bullet_id)
    IN  IF bullet_id \notin Keys(st)
        THEN [storage |-> st, ret |-> [success |-> FALSE]]
        ELSE IF validate /\ ~validation.is_valid
        THEN [storage |-> Store(st, [existing EXCEPT !.bullet = bullet]),
              ret |-> [success |-> FALSE]]
        ELSE [storage |-> Store(st, [existing EXCEPT
                                        !.bullet = bullet,
                                        !.quality_score = IF validate THEN validation.quality_score
                                                          ELSE existing.quality_score]),
              ret |-> [success |-> TRUE]]

\* BulletLibraryManager.update_bullet
UpdateBullet(st, bullet_id, bullet, validate) ==
    LET validation == ValidateBullet(bullet)
        existing == Item(st, bullet_id)
    IN  IF bullet_id \notin Keys(st) \/ (validate /\ ~validation.is_valid)
        THEN [storage |-> st, ret |-> [success |-> FALSE]]
        ELSE [storage |-> Store(st, [existing EXCEPT
                                        !.bullet = bullet,
                                        !.quality_score = IF validate THEN validation.quality_score
                                                          ELSE existing.quality_score]),
              ret |-> [success |-> TRUE]]

\* BulletLibraryManager.delete_bullet
DeleteBullet(st, bullet_id) ==
    IF bullet_id \notin Keys(st)
    THEN [storage |-> st, ret |-> [success |-> FALSE]]
    ELSE [storage |-> SelectSeq(st, LAMBDA item : item.id # bullet_id), ret |-> [success |-> TRUE]]

\* BulletLibraryManager.list_bullets (no tags filter)
ListBullets(st, competency, company_stage, min_quality) ==
    LET by_competency == IF competency \in {None, ""} THEN st
                         ELSE SelectSeq(st, LAMBDA b : b.bullet.competency = competency)
        by_stage == IF company_stage \in {None, ""} THEN by_competency
                    ELSE SelectSeq(by_competency, LAMBDA b : b.bullet.company_stage = company_stage)
        bullets == IF min_quality > 0
                   THEN SelectSeq(by_stage, LAMBDA b : b.quality_score >= min_quality)
                   ELSE by_stage
    IN  SortedDesc(bullets, [i \in DOMAIN bullets |-> bullets[i].quality_score])

\* BulletLibraryManager._calculate_relevance; of the stage dictionaries'
\* terms only the enterprise verb "led" occurs in the library's texts
CalculateRelevance(bullet, jd_competencies, target_stage) ==
    LET competency_score ==
            IF \E i \in DOMAIN jd_competencies : jd_competencies[i].name = bullet.competency
            THEN 50 ELSE 0
        stage_boost ==
            IF target_stage = "enterprise" /\ HasKind(AssembleBullet(bullet), "strong") THEN 3 ELSE 0
    IN  Min2(100, competency_score + stage_boost)

\* BulletLibraryManager._apply_distribution: groups holds bullets_by_comp,
\* order its keys in the dict's order
RECURSIVE ApplyDistribution(_, _, _, _, _, _)
ApplyDistribution(groups, order, distribution, jd_competencies, k, selected) ==
    LET count == distribution[k]
        top_comp == jd_competencies[1].name
        use_top == jd_competencies # <<>> /\ top_comp \in Range(order) /\ groups[top_comp] # <<>>
        nonempty == {i \in DOMAIN order : groups[order[i]] # <<>>}
        comp == IF use_top THEN top_comp
                ELSE order[CHOOSE i \in nonempty : \A j \in nonempty : i <= j]
        taken == Min2(count, Len(groups[comp]))
    IN  IF k > Len(distribution) THEN selected
        ELSE IF ~use_top /\ nonempty = {}
        THEN ApplyDistribution(groups, order, distribution, jd_competencies, k + 1, selected)
        ELSE ApplyDistribution(
                [groups EXCEPT ![comp] = SubSeq(@, taken + 1, Len(@))], order, distribution,
                jd_competencies, k + 1, selected \o SubSeq(groups[comp], 1, taken))

\* the scoring without the usage penalty
ScoredBullets_NoPenalty(all_bullets, jd_competencies, criteria) ==
    LET final_score == [i \in DOMAIN all_bullets |->
            CalculateRelevance(all_bullets[i].bullet, jd_competencies, criteria.company_stage)]
    IN  SortedDesc(all_bullets, final_score)

\* smart_select, lines 213-240: the listed bullets by final score, largest
\* first
ScoredBullets(all_bullets, jd_competencies, criteria) ==
    LET final_score == [i \in DOMAIN all_bullets |->
            CalculateRelevance(all_bullets[i].bullet, jd_competencies, criteria.company_stage)
            - (IF criteria.prefer_unused THEN all_bullets[i].usage_count * 2 ELSE 0)]
    IN  SortedDesc(all_bullets, final_score)

\* smart_select, lines 242-251: the top count bullets, or the bullets picked
\* by _apply_distribution out of the groups by competency (lines 330-337)
SelectScored(scored_bullets, jd_competencies, criteria) ==
    LET selected_count == Max2(Min2(criteria.count, Len(scored_bullets)), 0)
        comp_of(item) == IF item.bullet.competency \in {None, ""} THEN "general"
                         ELSE item.bullet.competency
        first == {i \in DOMAIN scored_bullets :
                    \A j \in 1..(i - 1) : comp_of(scored_bullets[j]) # comp_of(scored_bullets[i])}
        order_items == SelectSeq([i \in DOMAIN scored_bullets |-> [i |-> i, item |-> scored_bullets[i]]],
                                 LAMBDA x : x.i \in first)
        order == [i \in DOMAIN order_items |-> comp_of(order_items[i].item)]
        groups == [c \in Range(order) |-> SelectSeq(scored_bullets, LAMBDA item : comp_of(item) = c)]
    IN  IF criteria.distribution = <<>>
        THEN SubSeq(scored_bullets, 1, selected_count)
        ELSE ApplyDistribution(groups, order, criteria.distribution, jd_competencies, 1, <<>>)

\* the ids of the selected items
IdsOf(selected) == [i \in DOMAIN selected |-> selected[i].id]

\* smart_select up to the marking, from the listed bullets and the job's
\* competencies
SelectListed(all_bullets, jd_competencies, criteria) ==
    [ids |-> IdsOf(SelectScored(ScoredBullets(all_bullets, jd_competencies, criteria),
                                jd_competencies, criteria)),
     total_available |-> Len(all_bullets)]

\* BulletLibraryManager.smart_select up to the marking: the ids selected
\* and the number of bullets listed
SelectItems(st, criteria) ==
    SelectListed(ListBullets(st, None, criteria.company_stage, criteria.min_quality_score),
                 ExtractCompetencies(criteria.job_description), criteria)

\* datetime.isoformat()
IsoFormat(t) == <<t>>

\* the marking applied to every stored item instead of the selected ones
MarkUsed_EveryItem(st, sel, t) ==
    IF sel.total_available = 0
    THEN [storage |-> st, ret |-> [selected_bullets |-> <<>>, total_selected |-> 0,
                                   message |-> "no_bullets"]]
    ELSE [storage |-> [i \in DOMAIN st |->
                         [st[i] EXCEPT !.usage_count = @ + 1, !.last_used = IsoFormat(t)]],
          ret |-> [selected_bullets |-> sel.ids, total_selected |-> Len(sel.ids),
                   total_available |-> sel.total_available, message |-> "selected"]]

\* smart_select, lines 205-211 and 253-275: the early return for an empty
\* listing, else the selected items still stored are marked as used and
\* the selection is returned
MarkUsed(st, sel, t) ==
    IF sel.total_available = 0
    THEN [storage |-> st, ret |-> [selected_bullets |-> <<>>, total_selected |-> 0,
                                   message |-> "no_bullets"]]
    ELSE [storage |-> [i \in DOMAIN st |->
                         IF st[i].id \in Range(sel.ids)
                         THEN [st[i] EXCEPT !.usage_count = @ + 1, !.last_used = IsoFormat(t)]
                         ELSE st[i]],
          ret |-> [selected_bullets |-> sel.ids, total_selected |-> Len(sel.ids),
                   total_available |-> sel.total_available, message |-> "selected"]]

\* BulletLibraryManager.smart_select; t is the value of datetime.now()
SmartSelect(st, criteria, t) == MarkUsed(st, SelectItems(st, criteria), t)

\* statements offered to the library: two valid ones and one too short
LibraryBullets ==
    {[SixPointBullet(<<Tok("strong", 3)>>, <<Txt(150)>>, <<Txt(14)>>,
                     <<Txt(12), Sp(1), Tok("pct", 3)>>, <<Txt(28)>>,
                     <<Txt(18), Sp(1), Tok("usd", 3), Sp(1), Txt(4)>>)
        EXCEPT !.id = "a", !.competency = "Technical Skills", !.company_stage = "enterprise"],
     SixPointBullet(<<Txt(7)>>, <<Txt(150)>>, <<Txt(14)>>, <<Txt(16)>>, <<Txt(28)>>,
                    <<Txt(18), Sp(1), Tok("usd", 3), Sp(1), Txt(4)>>),
     [SixPointBullet(<<Tok("strong", 3)>>, <<Txt(145)>>, <<Txt(14)>>,
                     <<Txt(12), Sp(1), Tok("pct", 3)>>, <<Txt(28)>>, <<Txt(24)>>)
        EXCEPT !.id = "a"]}

LibraryIds == {"a", "u1"}
MaxUsage == 2
MaxTime == 1

Criteria(job, stage, count, distribution, prefer_unused, min_quality) ==
    [job_description |-> job, company_stage |-> stage, count |-> count,
     distribution |-> distribution, prefer_unused |-> prefer_unused,
     min_quality_score |-> min_quality]

SelectionCriteria ==
    {Criteria({}, None, 1, <<>>, TRUE, 70),
     Criteria({}, None, 0, <<>>, TRUE, 0),
     Criteria({"python", "sql", "roadmap"}, None, 1, <<>>, TRUE, 0),
     Criteria({"python", "sql", "roadmap"}, None, 2, <<>>, FALSE, 0),
     Criteria({"python", "sql", "roadmap"}, "enterprise", 1, <<>>, TRUE, 70),
     Criteria({"python", "sql", "roadmap"}, None, 1, <<2, 1>>, TRUE, 0),
     Criteria({}, None, 2, <<1>>, FALSE, 0)}

InitLibrary == call = NoCall /\ IdleValidator /\ IdleLibrary

CallAddBullet ==
    \E bullet \in LibraryBullets, validate \in BOOLEAN, uuid \in LibraryIds \ ({"a"} \cup Keys(storage)) :
        LET r == AddBullet(storage, bullet, validate, uuid)
        IN  /\ storage' = r.storage
            /\ call' = [fn |-> "add_bullet", validate |-> validate,
                        bullet_valid |-> ValidateBullet(bullet).is_valid, ret |-> r.ret]
            /\ UNCHANGED <<heap, now, threads>>

CallGetBullet ==
    \E bullet_id \in LibraryIds :
        /\ call' = [fn |-> "get_bullet", ret |-> GetBullet(storage, bullet_id)]
        /\ UNCHANGED <<heap, storage, now, threads>>

CallUpdateBullet ==
    \E bullet_id \in LibraryIds, bullet \in LibraryBullets, validate \in {TRUE} :
        LET r == UpdateBullet(storage, bullet_id, bullet, validate)
        IN  /\ storage' = r.storage
            /\ call' = [fn |-> "update_bullet", bullet_id |-> bullet_id, validate |-> validate,
                        bullet_valid |-> ValidateBullet(bullet).is_valid, ret |-> r.ret]
            /\ UNCHANGED <<heap, now, threads>>

CallDeleteBullet ==
    \E bullet_id \in LibraryIds :
        LET r == DeleteBullet(storage, bullet_id)
        IN  /\ storage' = r.storage
            /\ call' = [fn |-> "delete_bullet", bullet_id |-> bullet_id, ret |-> r.ret]
            /\ UNCHANGED <<heap, now, threads>>

CallListBullets ==
    \E competency \in {None, "Technical Skills"}, company_stage \in {None, "enterprise"},
       min_quality \in {0, 70} :
        /\ call' = [fn |-> "list_bullets",
                    ret |-> ListBullets(storage, competency, company_stage, min_quality)]
        /\ UNCHANGED <<heap, storage, now, threads>>

\* the call reads the clock at t, no earlier than the last reading
CallSmartSelect ==
    /\ \A i \in DOMAIN storage : storage[i].usage_count < MaxUsage
    /\ \E criteria \in SelectionCriteria, t \in now..MaxTime :
        LET r == SmartSelect(storage, criteria, t)
        IN  /\ storage' = r.storage
            /\ now' = t
            /\ call' = [fn |-> "smart_select", criteria |-> criteria, ret |-> r.ret]
            /\ UNCHANGED <<heap, threads>>

NextLibrary ==
    \/ CallAddBullet
    \/ CallGetBullet
    \/ CallUpdateBullet
    \/ CallDeleteBullet
    \/ CallListBullets
    \/ CallSmartSelect

SpecLibrary == InitLibrary /\ [][NextLibrary]_vars

\* C3: smart_select adds exactly 1 to usage_count and sets last_used for
\* each item it returns and leaves both unchanged for every other item; no
\* other library operation increases a usage_count.
C3_UsageOnlyBySelection ==
    [][LET returned == IF call'.fn = "smart_select" THEN Range(call'.ret.selected_bullets) ELSE {}
       IN  /\ \A id \in Keys(storage) \cap Keys(storage') :
                LET old == Item(storage, id)
                    new == Item(storage', id)
                IN  /\ id \in returned =>
                          new.usage_count = old.usage_count + 1 /\ new.last_used = IsoFormat(now')
                    /\ (call'.fn = "smart_select" /\ id \notin returned) =>
                          new.usage_count = old.usage_count /\ new.last_used = old.last_used
                    /\ call'.fn # "smart_select" => new.usage_count <= old.usage_count
           /\ \A id \in Keys(storage') \ Keys(storage) : Item(storage', id).usage_count = 0
           /\ returned \subseteq Keys(storage)]_vars

\* C3 witness: a selection that returned one stored item and not another.
C3_Witness ==
    /\ call.fn = "smart_select"
    /\ \E id \in Keys(storage) :
          id \in Range(call.ret.selected_bullets) /\ Item(storage, id).usage_count >= 1
                                                   /\ Item(storage, id).last_used = IsoFormat(now)
    /\ \E id \in Keys(storage) : id \notin Range(call.ret.selected_bullets)

(***************************************************************************)
(* smart_select and delete_bullet called from several threads.  The class  *)
(* dict is shared and the code takes no lock, so a thread can be           *)
(* preempted between any two of its accesses to _storage: after the        *)
(* selection is computed, and in the marking loop between the membership   *)
(* test (line 256), the read and the write of usage_count += 1 (line 257)  *)
(* and the assignment of last_used (line 258).  A thread is [op, criteria, *)
(* bullet_id, pc, selected, i, tmp]; pc "failed" is a KeyError leaving the *)
(* call.                                                                   *)
(***************************************************************************)
MaxThreads == 2

\* a library of two valid statements, stored under "a" and "u1"
InitialLibrary ==
    LET a == CHOOSE b \in LibraryBullets : b.id = "a" /\ ValidateBullet(b).is_valid
        u == CHOOSE b \in LibraryBullets : b.id = None
    IN  AddBullet(AddBullet(<<>>, a, TRUE, "u1").storage, u, TRUE, "u1").storage

ThreadCalls ==
    {[op |-> "smart_select", criteria |-> Criteria({}, None, 2, <<>>, TRUE, 0), bullet_id |-> ""],
     [op |-> "smart_select", criteria |-> Criteria({}, None, 1, <<>>, FALSE, 0), bullet_id |-> ""],
     [op |-> "delete_bullet", criteria |-> Criteria({}, None, 0, <<>>, FALSE, 0), bullet_id |-> "a"]}

InitThreads ==
    /\ call = NoCall
    /\ IdleValidator
    /\ storage = InitialLibrary
    /\ now = 0
    /\ \E calls \in SeqsUpTo(ThreadCalls, MaxThreads) :
          /\ Len(calls) >= 2
          /\ threads = [k \in DOMAIN calls |->
                          [op |-> calls[k].op, criteria |-> calls[k].criteria,
                           bullet_id |-> calls[k].bullet_id, pc |-> "start",
                           selected |-> <<>>, i |-> 1, tmp |-> 0]]

\* smart_select, lines 194-251: the selection, computed from what is stored
ThreadSelect ==
    \E k \in DOMAIN threads :
        /\ threads[k].op = "smart_select" /\ threads[k].pc = "start"
        /\ LET sel == SelectItems(storage, threads[k].criteria)
           IN  threads' = [threads EXCEPT ![k].selected = sel.ids,
                                          ![k].pc = IF sel.total_available = 0 THEN "done" ELSE "check"]
        /\ UNCHANGED <<call, heap, storage, now>>

\* line 256: if bullet_id in cls._storage
ThreadCheck ==
    \E k \in DOMAIN threads :
        /\ threads[k].pc = "check"
        /\ LET t == threads[k]
           IN  threads' = [threads EXCEPT ![k] =
                  IF t.i > Len(t.selected) THEN [t EXCEPT !.pc = "done"]
                  ELSE IF t.selected[t.i] \in Keys(storage) THEN [t EXCEPT !.pc = "read"]
                  ELSE [t EXCEPT !.i = @ + 1]]
        /\ UNCHANGED <<call, heap, storage, now>>

\* line 257, the load of cls._storage[bullet_id].usage_count
ThreadRead ==
    \E k \in DOMAIN threads :
        /\ threads[k].pc = "read"
        /\ LET t == threads[k]
               id == t.selected[t.i]
           IN  threads' = [threads EXCEPT ![k] =
                  IF id \in Keys(storage)
                  THEN [t EXCEPT !.tmp = Item(storage, id).usage_count, !.pc = "write"]
                  ELSE [t EXCEPT !.pc = "failed"]]
        /\ UNCHANGED <<call, heap, storage, now>>

\* line 257, the store of usage_count + 1 into the item that was loaded; an
\* item deleted in between is no longer in the dict
ThreadWrite ==
    \E k \in DOMAIN threads :
        /\ threads[k].pc = "write"
        /\ LET t == threads[k]
               id == t.selected[t.i]
           IN  /\ storage' = [j \in DOMAIN storage |->
                                IF storage[j].id = id
                                THEN [storage[j] EXCEPT !.usage_count = t.tmp + 1]
                                ELSE storage[j]]
               /\ threads' = [threads EXCEPT ![k].pc = "stamp"]
        /\ UNCHANGED <<call, heap, now>>

\* line 258: cls._storage[bullet_id].last_used = datetime.now().isoformat()
ThreadStamp ==
    \E k \in DOMAIN threads :
        /\ threads[k].pc = "stamp"
        /\ LET t == threads[k]
               id == t.selected[t.i]
           IN  IF id \in Keys(storage)
               THEN /\ \E time \in now..MaxTime :
                         /\ now' = time
                         /\ storage' = [j \in DOMAIN storage |->
                                          IF storage[j].id = id
                                          THEN [storage[j] EXCEPT !.last_used = IsoFormat(time)]
                                          ELSE storage[j]]
                    /\ threads' = [threads EXCEPT ![k].pc = "check", ![k].i = @ + 1]
               ELSE /\ threads' = [threads EXCEPT ![k].pc = "failed"]
                    /\ UNCHANGED <<storage, now>>
        /\ UNCHANGED <<call, heap>>

\* delete_bullet, line 123: if bullet_id not in cls._storage
ThreadDeleteCheck ==
    \E k \in DOMAIN threads :
        /\ threads[k].op = "delete_bullet" /\ threads[k].pc = "start"
        /\ threads' = [threads EXCEPT ![k].pc =
                          IF threads[k].bullet_id \in Keys(storage) THEN "delete" ELSE "done"]
        /\ UNCHANGED <<call, heap, storage, now>>

\* delete_bullet, line 129: del cls._storage[bullet_id]
ThreadDelete ==
    \E k \in DOMAIN threads :
        /\ threads[k].pc = "delete"
        /\ IF threads[k].bullet_id \in Keys(storage)
           THEN /\ storage' = DeleteBullet(storage, threads[k].bullet_id).storage
                /\ threads' = [threads EXCEPT ![k].pc = "done"]
           ELSE /\ threads' = [threads EXCEPT ![k].pc = "failed"]
                /\ UNCHANGED storage
        /\ UNCHANGED <<call, heap, now>>

NextThreads ==
    \/ ThreadSelect
    \/ ThreadCheck
    \/ ThreadRead
    \/ ThreadWrite
    \/ ThreadStamp
    \/ ThreadDeleteCheck
    \/ ThreadDelete

SpecThreads == InitThreads /\ [][NextThreads]_vars

AllReturned == threads # <<>> /\ \A k \in DOMAIN threads : threads[k].pc \in {"done", "failed"}

\* C4: with concurrent smart_select and delete_bullet calls, once all have
\* returned every stored item's usage_count is its initial value plus the
\* number of calls that returned it, and no call failed on a vanished item.
C4_SerializedUsage ==
    AllReturned =>
        /\ \A k \in DOMAIN threads : threads[k].pc # "failed"
        /\ \A id \in Keys(storage) :
              Item(storage, id).usage_count =
                  Item(InitialLibrary, id).usage_count
                  + Cardinality({k \in DOMAIN threads : id \in Range(threads[k].selected)})

\* C4, the usage counts alone, for calls that did not fail.
C4_NoLostUpdate ==
    (AllReturned /\ \A k \in DOMAIN threads : threads[k].pc = "done") =>
        \A id \in Keys(storage) :
            Item(storage, id).usage_count =
                Cardinality({k \in DOMAIN threads : id \in Range(threads[k].selected)})

\* C4, the failures alone.
C4_NoCallFails == \A k \in DOMAIN threads : threads[k].pc # "failed"

(***************************************************************************)
(* JDAssessor.assess: the fit of a candidate to a job description.  The    *)
(* job description and the candidate's text (skills and experience,        *)
(* lowercased) are sets of words; competencies is a sequence of            *)
(* [name, weight, keywords] with the weight in hundredths.  A returned     *)
(* weight is the exact fraction [num, den]; a match_score is in tenths.    *)
(***************************************************************************)
RECURSIVE Gcd(_, _)
Gcd(a, b) == IF b = 0 THEN a ELSE Gcd(b, a % b)

\* JDAssessor._assess_competency
AssessCompetency(area_config, jd_lower, candidate_text) ==
    LET keywords == area_config.keywords
        jd_mentioned == SelectSeq(keywords, LAMBDA kw : \E w \in jd_lower : Contains(w, kw))
        matched == SelectSeq(jd_mentioned, LAMBDA kw : \E w \in candidate_text : Contains(w, kw))
    IN  IF jd_mentioned = <<>>
        THEN [name |-> area_config.name, weight |-> [num |-> 0, den |-> 1],
              match_score |-> 1000, matched_keywords |-> <<>>, missing_keywords |-> <<>>]
        ELSE [name |-> area_config.name,
              weight |-> [num |-> area_config.weight * Len(jd_mentioned),
                          den |-> 100 * Len(keywords)],
              match_score |-> RoundHalfEven(Len(matched) * 1000, Len(jd_mentioned)),
              matched_keywords |-> matched,
              missing_keywords |-> SelectSeq(jd_mentioned,
                                             LAMBDA kw : ~\E w \in candidate_text : Contains(w, kw))]

\* JDAssessor._determine_fit_level
DetermineFitLevel(score) ==
    IF score >= 85 THEN "excellent"
    ELSE IF score >= 70 THEN "strong"
    ELSE IF score >= 50 THEN "moderate"
    ELSE "weak"

\* sum of match_score * weight over the matches, as the fraction [num, den]
RECURSIVE WeightedScore(_, _)
WeightedScore(matches, k) ==
    IF k = 0 THEN [num |-> 0, den |-> 1]
    ELSE LET rest == WeightedScore(matches, k - 1)
             m == matches[k]
             num == rest.num * (10 * m.weight.den) + m.match_score * m.weight.num * rest.den
             den == rest.den * (10 * m.weight.den)
             g == Gcd(den, num)
         IN  [num |-> num \div g, den |-> den \div g]

\* assess with the weighted score rounded to the nearest integer
Assess_Rounded(job_description, candidate_text, competencies) ==
    LET competency_matches == [i \in DOMAIN competencies |->
                                  AssessCompetency(competencies[i], job_description, candidate_text)]
        weighted_score == WeightedScore(competency_matches, Len(competency_matches))
        fit_score == Min2(100, RoundHalfEven(weighted_score.num, weighted_score.den))
    IN  [fit_score |-> fit_score, fit_level |-> DetermineFitLevel(fit_score),
         competency_matches |-> competency_matches]

\* JDAssessor.assess: the matches, fit_score = min(100, int(weighted_score))
\* and the fit level
Assess(job_description, candidate_text, competencies) ==
    LET competency_matches == [i \in DOMAIN competencies |->
                                  AssessCompetency(competencies[i], job_description, candidate_text)]
        weighted_score == WeightedScore(competency_matches, Len(competency_matches))
        fit_score == Min2(100, weighted_score.num \div weighted_score.den)
    IN  [fit_score |-> fit_score, fit_level |-> DetermineFitLevel(fit_score),
         competency_matches |-> competency_matches]

\* COMPETENCY_AREAS as the sequence of its items
DefaultCompetencies ==
    [i \in DOMAIN AreaOrder |->
        [name |-> AreaOrder[i], weight |-> COMPETENCY_AREAS[AreaOrder[i]].weight,
         keywords |-> COMPETENCY_AREAS[AreaOrder[i]].keywords]]

\* custom_competencies: two areas of two keywords, weights summing to 1 and
\* to more than 1
CustomCompetencies ==
    {<<[name |-> "data", weight |-> w, keywords |-> <<"python", "sql">>],
       [name |-> "delivery", weight |-> 100 - w + extra, keywords |-> <<"lead", "deliver", "product">>]>> :
         w \in {50, 70}, extra \in {0, 30}}

AssessInputs ==
    [job_description : JobTexts, candidate_text : JobTexts,
     competencies : {DefaultCompetencies} \cup CustomCompetencies]

InitAssess ==
    /\ call = NoCall
    /\ \E input \in AssessInputs : heap = <<input>>
    /\ IdleLibrary

CallAssess ==
    /\ call = NoCall
    /\ call' = [fn |-> "assess", job_description |-> heap[1].job_description,
                candidate_text |-> heap[1].candidate_text,
                competencies |-> heap[1].competencies,
                ret |-> Assess(heap[1].job_description, heap[1].candidate_text,
                               heap[1].competencies)]
    /\ UNCHANGED <<heap, storage, now, threads>>

NextAssess == CallAssess

SpecAssess == InitAssess /\ [][NextAssess]_vars

Assessed == call.fn = "assess"

\* sum of the returned weights over the matches, as the fraction [num, den]
RECURSIVE WeightSum(_, _)
WeightSum(matches, k) ==
    IF k = 0 THEN [num |-> 0, den |-> 1]
    ELSE LET rest == WeightSum(matches, k - 1)
             w == matches[k].weight
         IN  [num |-> rest.num * w.den + w.num * rest.den, den |-> rest.den * w.den]

\* C11: the fit_score returned by assess is the sum over the areas of
\* weight x match_score of the returned matches, taken as an integer and
\* capped to lie in 0..100, and fit_level is excellent from 85, strong from
\* 70, moderate from 50 and weak below.
C11_FitScoreIsWeightedSum ==
    Assessed =>
        LET r == call.ret
            total == WeightedScore(r.competency_matches, Len(r.competency_matches))
        IN  /\ r.fit_score \in 0..100
            /\ r.fit_score = Min2(100, total.num \div total.den)
            /\ (r.fit_level = "excellent") = (r.fit_score >= 85)
            /\ (r.fit_level = "strong") = (70 <= r.fit_score /\ r.fit_score < 85)
            /\ (r.fit_level = "moderate") = (50 <= r.fit_score /\ r.fit_score < 70)
            /\ (r.fit_level = "weak") = (r.fit_score < 50)

C11_Witness ==
    /\ Assessed
    /\ call.ret.fit_level = "strong"
    /\ \E i \in DOMAIN call.ret.competency_matches :
          call.ret.competency_matches[i].match_score \notin {0, 1000}

\* C12: when the job text mentions a keyword, the weights of the mentioned
\* areas sum to 1, an area not mentioned has weight 0 and match_score 100,
\* and a candidate holding every keyword the job text mentions gets
\* fit_score 100.
C12_WeightsRenormalized ==
    (Assessed /\ \E i \in DOMAIN call.ret.competency_matches :
                    call.ret.competency_matches[i].weight.num > 0) =>
        LET r == call.ret
            total == WeightSum(r.competency_matches, Len(r.competency_matches))
        IN  /\ total.num = total.den
            /\ \A i \in DOMAIN r.competency_matches :
                  r.competency_matches[i].weight.num = 0 => r.competency_matches[i].match_score = 1000
            /\ (\A i \in DOMAIN r.competency_matches : r.competency_matches[i].missing_keywords = <<>>)
                  => r.fit_score = 100

\* C12, the part about the areas the job text does not mention.
C12_UnmentionedAreas ==
    Assessed =>
        \A i \in DOMAIN call.ret.competency_matches :
            LET m == call.ret.competency_matches[i]
            IN  (~\E k \in DOMAIN call.competencies[i].keywords, w \in call.job_description :
                    Contains(w, call.competencies[i].keywords[k]))
                => m.weight.num = 0 /\ m.match_score = 1000

\* C13: smart_select returns at most criteria.count items and no library
\* item id twice, for every library content and every criteria, also those
\* that carry a distribution list.
C13_AtMostCountNoDuplicates ==
    call.fn = "smart_select" =>
        /\ Len(call.ret.selected_bullets) <= call.criteria.count
        /\ \A i, j \in DOMAIN call.ret.selected_bullets :
              call.ret.selected_bullets[i] = call.ret.selected_bullets[j] => i = j

\* C13 for criteria without a distribution list.
C13_WithoutDistribution ==
    (call.fn = "smart_select" /\ call.criteria.distribution = <<>>) =>
        /\ Len(call.ret.selected_bullets) <= call.criteria.count
        /\ \A i, j \in DOMAIN call.ret.selected_bullets :
              call.ret.selected_bullets[i] = call.ret.selected_bullets[j] => i = j

\* C13, the ids alone.
C13_NoDuplicateIds ==
    call.fn = "smart_select" =>
        \A i, j \in DOMAIN call.ret.selected_bullets :
            call.ret.selected_bullets[i] = call.ret.selected_bullets[j] => i = j

(***************************************************************************)
(* The library under add_bullet and update_bullet alone, each called with  *)
(* and without validation.                                                 *)
(***************************************************************************)
\* update_bullet(bullet_id, bullet, validate=False)
CallUpdateBulletUnvalidated ==
    \E bullet_id \in LibraryIds, bullet \in LibraryBullets :
        LET r == UpdateBullet(storage, bullet_id, bullet, FALSE)
        IN  /\ storage' = r.storage
            /\ call' = [fn |-> "update_bullet", bullet_id |-> bullet_id, validate |-> FALSE,
                        bullet_valid |-> ValidateBullet(bullet).is_valid, ret |-> r.ret]
            /\ UNCHANGED <<heap, now, threads>>

NextStore == CallAddBullet \/ CallUpdateBullet \/ CallUpdateBulletUnvalidated

SpecStore == InitLibrary /\ [][NextStore]_vars

\* C14: every item stored in the library holds a statement that validates
\* as valid, and its quality_score is the quality score of validating the
\* statement it holds.
C14_StoredItemsValidated ==
    \A i \in DOMAIN storage :
        LET validation == ValidateBullet(storage[i].bullet)
        IN  validation.is_valid /\ storage[i].quality_score = validation.quality_score

\* C14 for one call made with validate = True: the item it stored holds a
\* valid statement with that statement's quality score.
C14_ValidatingCalls ==
    [][(call'.fn \in {"add_bullet", "update_bullet"} /\ call'.validate /\ call'.ret.success) =>
          LET id == IF call'.fn = "add_bullet" THEN call'.ret.bullet_id ELSE call'.bullet_id
              validation == ValidateBullet(Item(storage', id).bullet)
          IN  validation.is_valid /\ Item(storage', id).quality_score = validation.quality_score]_vars

(***************************************************************************)
(* AIService: get_completion with its fallback chain of models, and        *)
(* enhance_resume, which computes the ATS analysis locally and then asks   *)
(* the language model for improvements.  A call in progress is the record  *)
(* call = [fn, pc, chain, k, tried, completion, response, raised]; texts   *)
(* of a resume and a job are sets of lowercase words.                      *)
(***************************************************************************)
AVAILABLE_MODELS ==
    [grok |-> "x-ai/grok-3-fast-beta",
     gemini |-> "google/gemini-2.0-flash-exp:free",
     deepseek |-> "deepseek/deepseek-chat-v3-0324:free",
     kimi |-> "moonshotai/kimi-k2:free",
     llama |-> "meta-llama/llama-3.3-70b-instruct:free",
     glm |-> "thudm/glm-z1-32b:free",
     qwen |-> "qwen/qwen3-235b-a22b:free",
     mistral |-> "mistralai/mistral-small-3.1-24b-instruct:free"]

\* AIService.__init__: self.model
SelectedModel(model_name) ==
    IF model_name \in DOMAIN AVAILABLE_MODELS THEN AVAILABLE_MODELS[model_name]
    ELSE AVAILABLE_MODELS["grok"]

\* [m for m in models if not (m in seen or seen.add(m))]
RemoveDuplicates(models) ==
    LET first == {i \in DOMAIN models : \A j \in 1..(i - 1) : models[j] # models[i]}
        place(i) == Cardinality({j \in first : j <= i})
    IN  [r \in 1..Cardinality(first) |-> models[CHOOSE i \in first : place(i) = r]]

\* the chain with the duplicates left in
FallbackModels_Repeating(model) ==
    <<model, AVAILABLE_MODELS["gemini"], AVAILABLE_MODELS["deepseek"], AVAILABLE_MODELS["grok"]>>

\* get_completion, lines 69-79: the models to try, in order
FallbackModels(model) ==
    RemoveDuplicates(<<model, AVAILABLE_MODELS["gemini"], AVAILABLE_MODELS["deepseek"],
                       AVAILABLE_MODELS["grok"]>>)

NotConfigured == "{\"error\": \"API not configured\"}"
RequestFailed == "{\"error\": \"API request failed\"}"

\* what a model answers when it answers
ModelAnswers == {"{\"enhanced_summary\": \"s\"}", "not json"}

\* int((n / d) * 100) and its like
Percent(n, d, scale) == (n * scale) \div d

\* enhance_resume, lines 117-183: the five scores
Scores(resume, job) ==
    LET experience_text == UNION {resume.experience[i] : i \in DOMAIN resume.experience}
        important_job_words == job.title \cup job.description
        matched_skills == resume.skills \cap job.skills
        matched_exp == Cardinality(important_job_words \cap experience_text)
        keyword_hits == Cardinality(job.skills \cap (experience_text \cup resume.skills))
        format_checks == <<resume.name, resume.email, resume.phone, resume.summary > 50,
                           Cardinality(resume.skills) >= 5, Len(resume.experience) >= 1,
                           resume.education # "none">>
    IN  [skills_match |->
            IF job.skills # {}
            THEN Min2(100, Percent(Cardinality(matched_skills), Max2(Cardinality(job.skills), 1), 100))
            ELSE 50,
         experience_relevance |->
            IF important_job_words # {} /\ resume.experience # <<>>
            THEN Min2(100, Percent(matched_exp, Max2(Cardinality(important_job_words), 1), 150))
            ELSE IF resume.experience # <<>> THEN 30 ELSE 0,
         keyword_density |->
            IF job.skills # {}
            THEN Min2(100, Percent(keyword_hits, Cardinality(job.skills), 100))
            ELSE 50,
         education |-> IF resume.education = "none" THEN 20
                       ELSE IF resume.education = "degree" THEN 100 ELSE 80,
         format_quality |->
            Percent(Cardinality({i \in DOMAIN format_checks : format_checks[i]}),
                    Len(format_checks), 100)]

\* enhance_resume, lines 185-193: the weighted ATS score
AtsScore(scores) ==
    Min2(100, Max2(0, (30 * scores.skills_match + 25 * scores.experience_relevance
                       + 20 * scores.keyword_density + 10 * scores.education
                       + 15 * scores.format_quality) \div 100))

\* enhance_resume, lines 195-412: the rule-based improvements per section
SectionImprovements(resume, job) ==
    [summary |->
        [issues |-> IF resume.summary = 0 THEN <<"Missing professional summary">>
                    ELSE IF resume.summary < 100 THEN <<"Summary is too short">> ELSE <<>>,
         suggested |-> job.title # {},
         ai_enhanced |-> <<>>],
     experience |-> [items |-> Len(resume.experience)],
     skills |-> [matched |-> resume.skills \cap job.skills,
                 missing |-> job.skills \ resume.skills],
     projects |-> [tips |-> IF resume.projects = 0 THEN 2 ELSE 1]]

\* enhance_resume, lines 414-424: the response built from the local analysis
LocalResponse(resume, job) ==
    [ats_score |-> AtsScore(Scores(resume, job)),
     score_breakdown |-> Scores(resume, job),
     section_improvements |-> SectionImprovements(resume, job)]

\* _get_ai_improvements and enhance_resume, lines 427-452: the completion
\* parsed and merged into the response; a text that is no JSON, or a JSON
\* object without the expected keys, leaves the response as it was
MergeCompletion(response, completion) ==
    IF completion = "{\"enhanced_summary\": \"s\"}"
    THEN [response EXCEPT !.section_improvements.summary.ai_enhanced = <<"s">>]
    ELSE response

ResumeChoices ==
    {[name |-> TRUE, email |-> TRUE, phone |-> TRUE, summary |-> 120,
      skills |-> {"python", "sql", "aws", "docker", "react"},
      experience |-> <<{"engineer", "python", "platform"}>>, education |-> "degree", projects |-> 1],
     [name |-> TRUE, email |-> FALSE, phone |-> FALSE, summary |-> 0,
      skills |-> {"python"}, experience |-> <<>>, education |-> "none", projects |-> 0],
     [name |-> TRUE, email |-> TRUE, phone |-> FALSE, summary |-> 60,
      skills |-> {"sql", "excel"}, experience |-> <<{"analyst"}, {"intern"}>>,
      education |-> "plain", projects |-> 0]}

JobPostings ==
    {[title |-> {"data", "engineer"}, description |-> {"python", "platform", "pipelines"},
      skills |-> {"python", "sql", "kafka"}],
     [title |-> {}, description |-> {}, skills |-> {}]}

ModelNames == {"grok", "gemini", "llama", "gpt"}

AIInputs ==
    [fn : {"get_completion", "enhance_resume"}, is_configured : BOOLEAN,
     model_name : ModelNames, resume : ResumeChoices, job : JobPostings]

InitAI ==
    /\ call = NoCall
    /\ \E input \in AIInputs : heap = <<input>>
    /\ IdleLibrary

\* get_completion, lines 64-79: an unconfigured service returns at once
Completion(input) ==
    [chain |-> FallbackModels(SelectedModel(input.model_name)), k |-> 1, tried |-> <<>>,
     completion |-> IF input.is_configured THEN "" ELSE NotConfigured,
     raised |-> FALSE]

CallGetCompletion ==
    /\ call = NoCall /\ heap[1].fn = "get_completion"
    /\ call' = [fn |-> "get_completion", response |-> Absent,
                pc |-> IF heap[1].is_configured THEN "create" ELSE "done"]
               @@ Completion(heap[1])
    /\ UNCHANGED <<heap, storage, now, threads>>

\* enhance_resume: the local analysis; the model is asked only when the
\* service is configured
CallEnhanceResume ==
    /\ call = NoCall /\ heap[1].fn = "enhance_resume"
    /\ call' = [fn |-> "enhance_resume", response |-> LocalResponse(heap[1].resume, heap[1].job),
                pc |-> IF heap[1].is_configured THEN "create" ELSE "done"]
               @@ [Completion(heap[1]) EXCEPT !.completion = ""]
    /\ UNCHANGED <<heap, storage, now, threads>>

\* lines 82-98: client.chat.completions.create raises for the model tried;
\* after the last model the error value is returned
CreateRaises ==
    /\ call.fn \in {"get_completion", "enhance_resume"} /\ call.pc = "create"
    /\ LET model == call.chain[call.k]
           last == model = call.chain[Len(call.chain)]
       IN  call' = [call EXCEPT !.tried = Append(@, model),
                                !.k = @ + 1,
                                !.completion = IF last THEN RequestFailed ELSE @,
                                !.pc = IF last
                                       THEN (IF call.fn = "get_completion" THEN "done" ELSE "merge")
                                       ELSE "create"]
    /\ UNCHANGED <<heap, storage, now, threads>>

\* lines 84-92: the model tried answers
CreateReturns ==
    /\ call.fn \in {"get_completion", "enhance_resume"} /\ call.pc = "create"
    /\ \E answer \in ModelAnswers :
          call' = [call EXCEPT !.tried = Append(@, call.chain[call.k]),
                               !.completion = answer,
                               !.pc = IF call.fn = "get_completion" THEN "done" ELSE "merge"]
    /\ UNCHANGED <<heap, storage, now, threads>>

\* enhance_resume, lines 427-454
MergeAndReturn ==
    /\ call.fn = "enhance_resume" /\ call.pc = "merge"
    /\ call' = [call EXCEPT !.response = MergeCompletion(@, call.completion), !.pc = "done"]
    /\ UNCHANGED <<heap, storage, now, threads>>

NextAI ==
    \/ CallGetCompletion
    \/ CallEnhanceResume
    \/ CreateRaises
    \/ CreateReturns
    \/ MergeAndReturn

SpecAI == InitAI /\ [][NextAI]_vars

AIReturned == call.fn \in {"get_completion", "enhance_resume"} /\ call.pc = "done"

\* the language model failed: the service is unconfigured or every model
\* of the chain raised
AIFailed ==
    /\ AIReturned
    /\ ~heap[1].is_configured \/ call.completion = RequestFailed

\* C15: when the service is unconfigured or every model of the chain
\* raises, get_completion returns an error value and does not raise, each
\* distinct model was tried at most once and in the chain's order (the
\* selected model, then gemini, deepseek, grok), and enhance_resume returns
\* the locally computed ats_score, score_breakdown and section improvements.
C15_ModelFailureIsLocalResult ==
    LET selected == SelectedModel(heap[1].model_name)
        order == <<selected, AVAILABLE_MODELS["gemini"], AVAILABLE_MODELS["deepseek"],
                   AVAILABLE_MODELS["grok"]>>
        first(m) == CHOOSE i \in DOMAIN order :
                        order[i] = m /\ \A j \in 1..(i - 1) : order[j] # m
    IN  /\ (call.fn \in {"get_completion", "enhance_resume"}) =>
              /\ \A i \in DOMAIN call.tried : \E p \in DOMAIN order : call.tried[i] = order[p]
              /\ \A i, j \in DOMAIN call.tried :
                    i < j => first(call.tried[i]) < first(call.tried[j])
        /\ AIFailed =>
              /\ ~call.raised
              /\ heap[1].is_configured => call.completion = RequestFailed
              /\ call.fn = "get_completion" =>
                    call.completion = (IF heap[1].is_configured THEN RequestFailed
                                       ELSE NotConfigured)
              /\ IF heap[1].is_configured
                 THEN {call.tried[i] : i \in DOMAIN call.tried}
                          = {order[p] : p \in DOMAIN order}
                 ELSE call.tried = <<>>
              /\ call.fn = "enhance_resume" =>
                    /\ call.response.score_breakdown = Scores(heap[1].resume, heap[1].job)
                    /\ call.response.ats_score = AtsScore(call.response.score_breakdown)
                    /\ call.response.section_improvements
                          = SectionImprovements(heap[1].resume, heap[1].job)

C15_Witness ==
    /\ AIFailed
    /\ call.fn = "enhance_resume"
    /\ heap[1].is_configured
    /\ Len(call.tried) = 4
    /\ call.response.ats_score > 50

(***************************************************************************)
(* The entry points that take a job description: BulletLibrary             *)
(* .select_for_job, JDAssessor.assess and the /orchestrate-application     *)
(* handler, which runs the first two through ApplicationOrchestrator       *)
(* .run_full_pipeline.  Of the pipeline's result the assessment and the    *)
(* selected statements are kept.                                           *)
(***************************************************************************)
HTTP_400_BAD_REQUEST == 400
HTTP_500_INTERNAL_SERVER_ERROR == 500
HTTP_200_OK == 200

\* select_for_job's default count
DefaultCount == 13

\* main.py, orchestrate_application: the HTTPException raised for missing
\* input is raised inside the try block, whose handler catches Exception
OrchestrateApplication(job_description, resume_data, candidate_text, bullet_library) ==
    IF job_description = {} \/ ~resume_data
    THEN [status_code |-> HTTP_500_INTERNAL_SERVER_ERROR,
          detail |-> "Failed to orchestrate application"]
    ELSE [status_code |-> HTTP_200_OK,
          assessment |-> Assess(job_description, candidate_text, DefaultCompetencies),
          selected_bullets |->
              SelectForJob(bullet_library, job_description, DefaultCount).selected_bullets]

EntryInputs ==
    {[bullets |-> bullets, job_description |-> job, count |-> count,
      resume_data |-> resume_data, candidate_text |-> IF resume_data THEN candidate ELSE {},
      competencies |-> DefaultCompetencies] :
        bullets \in SeqsUpTo(BulletChoices, 1), job \in JobChoices, count \in {0, 2},
        resume_data \in BOOLEAN, candidate \in {{}, {"python", "lead"}}}

InitEntry ==
    /\ call = NoCall
    /\ \E input \in EntryInputs : heap = <<input>>
    /\ IdleLibrary

CallOrchestrateApplication ==
    /\ call = NoCall
    /\ call' = [fn |-> "orchestrate_application", job_description |-> heap[1].job_description,
                ret |-> OrchestrateApplication(heap[1].job_description, heap[1].resume_data,
                                               heap[1].candidate_text, heap[1].bullets)]
    /\ UNCHANGED <<heap, storage, now, threads>>

NextEntry == CallSelectForJob \/ CallAssess \/ CallOrchestrateApplication

SpecEntry == InitEntry /\ [][NextEntry]_vars

\* C16: an empty job description is an input error at each entry point:
\* select_for_job and assess return no computed result for it, and the
\* orchestration handler answers with the input error (400) and no result.
C16_EmptyJobDescriptionIsInputError ==
    (call.fn \in {"select_for_job", "assess", "orchestrate_application"}
     /\ call.job_description = {}) =>
        /\ call.fn = "select_for_job" => "selected_bullets" \notin DOMAIN call.ret
        /\ call.fn = "assess" => "fit_score" \notin DOMAIN call.ret
        /\ call.fn = "orchestrate_application" =>
              /\ call.ret.status_code = HTTP_400_BAD_REQUEST
              /\ "assessment" \notin DOMAIN call.ret

\* the part of C16 that holds: the orchestration handler computes nothing
\* from an empty job description
C16_OrchestrationComputesNothing ==
    (call.fn = "orchestrate_application" /\ call.job_description = {}) =>
        /\ call.ret.status_code >= HTTP_400_BAD_REQUEST
        /\ DOMAIN call.ret = {"status_code", "detail"}

\* the handler's answer to an empty job description is not the input error
C16_OrchestrationAnswers400 ==
    (call.fn = "orchestrate_application" /\ call.job_description = {}) =>
        call.ret.status_code = HTTP_400_BAD_REQUEST

(***************************************************************************)
(* MetricDiversifier.  A statement is the sequence of its words; a word    *)
(* made of digits is a number, digits followed by % a percentage.  Each    *)
(* pattern of METRIC_TYPES asks for a number (quality: a percentage)       *)
(* followed, after optional white space, by text that starts with one of   *)
(* the type's units.                                                       *)
(***************************************************************************)
Numbers == {"3", "12"}
Percentages == {"40%", "12%"}

MetricTypeOrder == <<"time", "volume", "frequency", "scope", "quality">>

\* the units of METRIC_TYPES that the words of the statements start with
METRIC_TYPES ==
    [time |-> {"month", "months", "week", "day"},
     volume |-> {"users", "customers"},
     frequency |-> {"per", "weekly", "times"},
     scope |-> {"teams", "markets"},
     quality |-> {"increase", "retention", "accuracy"}]

\* the units a word starts with
UnitsStarting(word) ==
    CASE word = "months" -> {"month", "months"}
      [] word = "users" -> {"users"}
      [] word = "weekly" -> {"week", "weekly"}
      [] word = "teams" -> {"teams"}
      [] word = "increase" -> {"increase"}
      [] word = "retention" -> {"retention"}
      [] word = "percent" -> {"per"}
      [] OTHER -> {}

\* re.search(pattern, bullet, re.IGNORECASE)
MetricSearch(metric_type, bullet) ==
    \E i \in 1..(Len(bullet) - 1) :
        /\ IF metric_type = "quality" THEN bullet[i] \in Percentages ELSE bullet[i] \in Numbers
        /\ UnitsStarting(bullet[i + 1]) \cap METRIC_TYPES[metric_type] # {}

\* MetricDiversifier.classify_metric: the first type, in the order of
\* METRIC_TYPES, whose pattern is found
ClassifyMetric(bullet) ==
    LET found == {t \in DOMAIN MetricTypeOrder : MetricSearch(MetricTypeOrder[t], bullet)}
    IN  IF found = {} THEN None
        ELSE MetricTypeOrder[CHOOSE t \in found : \A u \in found : t <= u]

\* MetricDiversifier.check_diversity; diversity_score in tenths
CheckDiversity(bullets) ==
    LET classified == {i \in DOMAIN bullets : ClassifyMetric(bullets[i]) # None}
        types == {ClassifyMetric(bullets[i]) : i \in classified}
        metric_distribution ==
            [t \in types |-> Cardinality({i \in classified : ClassifyMetric(bullets[i]) = t})]
        \* a dict keeps its keys in the order of their first insertion
        first(t) == CHOOSE i \in classified :
                        ClassifyMetric(bullets[i]) = t
                        /\ \A j \in classified : ClassifyMetric(bullets[j]) = t => i <= j
        over == {t \in types : metric_distribution[t] > 2}
        place(t) == Cardinality({u \in over : first(u) <= first(t)})
        missing_types == {MetricTypeOrder[t] : t \in DOMAIN MetricTypeOrder} \ types
    IN  [distribution |-> metric_distribution,
         diversity_score |-> (Cardinality(types) * 1000) \div 5,
         total_bullets |-> Len(bullets),
         classified_bullets |-> classified,
         warnings |-> [r \in 1..Cardinality(over) |->
                          LET t == CHOOSE u \in over : place(u) = r
                          IN  [metric_type |-> t, count |-> metric_distribution[t]]],
         all_types_present |-> missing_types = {}]

MaxBullets == 5

StatementChoices ==
    {<<"cut", "costs", "by", "40%">>,
     <<"raised", "sales", "40%", "increase">>,
     <<"kept", "12%", "retention">>,
     <<"cut", "churn", "12%", "in", "3", "months">>,
     <<"led", "3", "teams">>}

InitDiversity ==
    /\ call = NoCall
    /\ \E bullets \in SeqsUpTo(StatementChoices, MaxBullets) : heap = <<bullets>>
    /\ IdleLibrary

CallCheckDiversity ==
    /\ call = NoCall
    /\ call' = [fn |-> "check_diversity", bullets |-> heap[1], ret |-> CheckDiversity(heap[1])]
    /\ UNCHANGED <<heap, storage, now, threads>>

NextDiversity == CallCheckDiversity

SpecDiversity == InitDiversity /\ [][NextDiversity]_vars

\* a statement that holds a percentage and no other number
PercentageOnly(bullet) ==
    /\ \E i \in DOMAIN bullet : bullet[i] \in Percentages
    /\ \A i \in DOMAIN bullet : bullet[i] \notin Numbers

\* C17: for k >= 1 statements that each hold a percentage and no other
\* metric, check_diversity reports exactly one metric type as present,
\* diversity_score is 20.0, and for k > 2 there is one warning, which says
\* that this type appears k times.
C17_PercentagesAreOneType ==
    (call.fn = "check_diversity" /\ call.bullets # <<>>
     /\ \A i \in DOMAIN call.bullets : PercentageOnly(call.bullets[i])) =>
        /\ Cardinality(DOMAIN call.ret.distribution) = 1
        /\ call.ret.diversity_score = 200
        /\ Len(call.bullets) > 2 =>
              /\ Len(call.ret.warnings) = 1
              /\ call.ret.warnings[1].count = Len(call.bullets)

\* what holds: the same for percentages that are followed by one of the
\* quality pattern's words
C17_QualifiedPercentages ==
    (call.fn = "check_diversity" /\ call.bullets # <<>>
     /\ \A i \in DOMAIN call.bullets :
           PercentageOnly(call.bullets[i]) /\ MetricSearch("quality", call.bullets[i])) =>
        /\ DOMAIN call.ret.distribution = {"quality"}
        /\ call.ret.diversity_score = 200
        /\ Len(call.bullets) > 2 =>
              call.ret.warnings = <<[metric_type |-> "quality", count |-> Len(call.bullets)]>>

(***************************************************************************)
(* ActionVerbChecker.  Statements are sequences of words as above; a       *)
(* leading list marker is a word of its own.                               *)
(***************************************************************************)
STRONG_ACTION_VERBS ==
    <<"Led", "Built", "Designed", "Spearheaded", "Drove", "Launched",
      "Scaled", "Optimized", "Implemented", "Developed", "Created",
      "Established", "Orchestrated", "Pioneered", "Architected", "Engineered",
      "Streamlined", "Executed", "Delivered", "Managed", "Directed",
      "Facilitated", "Coordinated", "Analyzed", "Synthesized", "Evaluated",
      "Transformed", "Modernized", "Automated", "Integrated", "Deployed",
      "Championed", "Initiated", "Accelerated", "Enhanced", "Refined">>

\* word.strip('.,;:')
StripPunctuation(word) ==
    CASE word = "Led," -> "Led"
      [] word = "..." -> ""
      [] OTHER -> word

\* ActionVerbChecker.extract_action_verb: one leading marker is dropped,
\* the first word left is the verb
ExtractActionVerb(bullet) ==
    LET cleaned == IF bullet # <<>> /\ bullet[1] \in {"-", "*"} THEN Tail(bullet) ELSE bullet
    IN  IF cleaned # <<>> THEN StripPunctuation(cleaned[1]) ELSE None

\* if verb:
IsVerb(verb) == verb \notin {None, ""}

\* the verbs that have an entry in _get_alternative_verb's table
AlternativesFirst ==
    [Led |-> "Spearheaded", Built |-> "Developed", Designed |-> "Architected",
     Managed |-> "Directed", Developed |-> "Built", Implemented |-> "Deployed",
     Created |-> "Built", Improved |-> "Enhanced", Increased |-> "Boosted",
     Reduced |-> "Decreased"]

\* the positions whose suggestion is drawn with random.choice
RandomPositions(bullets) ==
    {i \in DOMAIN bullets :
        /\ IsVerb(ExtractActionVerb(bullets[i]))
        /\ ExtractActionVerb(bullets[i]) \notin DOMAIN AlternativesFirst
        /\ \E j \in 1..(i - 1) : ExtractActionVerb(bullets[j]) = ExtractActionVerb(bullets[i])}

\* the draws random.choice can make for these positions
RandomChoices(bullets) ==
    {choice \in [RandomPositions(bullets) -> Range(STRONG_ACTION_VERBS)] :
        \A i \in DOMAIN choice : choice[i] # ExtractActionVerb(bullets[i])}

\* ActionVerbChecker._get_alternative_verb
GetAlternativeVerb(original_verb, drawn) ==
    IF original_verb \in DOMAIN AlternativesFirst THEN AlternativesFirst[original_verb]
    ELSE drawn

\* check_uniqueness with verb_usage overwritten at every use
CheckUniqueness_LatestUse(bullets, choice) ==
    LET verb(i) == ExtractActionVerb(bullets[i])
        used == {i \in DOMAIN bullets : IsVerb(verb(i))}
        repeated == {i \in used : \E j \in used : j < i /\ verb(j) = verb(i)}
        latest(i) == CHOOSE j \in used :
                        j < i /\ verb(j) = verb(i) /\ \A k \in used : (k < i /\ verb(k) = verb(i)) => k <= j
        place(i) == Cardinality({j \in repeated : j <= i})
        duplicates == [r \in 1..Cardinality(repeated) |->
                          LET i == CHOOSE j \in repeated : place(j) = r
                          IN  [verb |-> verb(i), first_use |-> latest(i), duplicate_at |-> i,
                               suggestion |-> GetAlternativeVerb(verb(i),
                                   IF i \in DOMAIN choice THEN choice[i] ELSE None)]]
    IN  [total_bullets |-> Len(bullets),
         unique_verbs |-> Cardinality(used \ repeated),
         all_unique |-> duplicates = <<>>,
         duplicates |-> duplicates,
         verb_usage |-> [v \in {verb(i) : i \in used} |->
                            CHOOSE i \in used : verb(i) = v /\ \A j \in used : verb(j) = v => i <= j]]

\* ActionVerbChecker.check_uniqueness
CheckUniqueness(bullets, choice) ==
    LET verb(i) == ExtractActionVerb(bullets[i])
        used == {i \in DOMAIN bullets : IsVerb(verb(i))}
        repeated == {i \in used : \E j \in used : j < i /\ verb(j) = verb(i)}
        first(i) == CHOOSE j \in used : verb(j) = verb(i) /\ \A k \in used : verb(k) = verb(i) => j <= k
        place(i) == Cardinality({j \in repeated : j <= i})
        duplicates == [r \in 1..Cardinality(repeated) |->
                          LET i == CHOOSE j \in repeated : place(j) = r
                          IN  [verb |-> verb(i), first_use |-> first(i), duplicate_at |-> i,
                               suggestion |-> GetAlternativeVerb(verb(i),
                                   IF i \in DOMAIN choice THEN choice[i] ELSE None)]]
    IN  [total_bullets |-> Len(bullets),
         unique_verbs |-> Cardinality(used \ repeated),
         all_unique |-> duplicates = <<>>,
         duplicates |-> duplicates,
         verb_usage |-> [v \in {verb(i) : i \in used} |->
                            CHOOSE i \in used : verb(i) = v /\ \A j \in used : verb(j) = v => i <= j]]

MaxStatements == 3

VerbStatements ==
    {<<"Led", "x">>, <<"-", "Led,", "y">>, <<"led", "z">>, <<"Zed", "a">>, <<"...">>, <<>>}

InitVerbs ==
    /\ call = NoCall
    /\ \E bullets \in SeqsUpTo(VerbStatements, MaxStatements) : heap = <<bullets>>
    /\ IdleLibrary

CallCheckUniqueness ==
    /\ call = NoCall
    /\ \E choice \in RandomChoices(heap[1]) :
          call' = [fn |-> "check_uniqueness", bullets |-> heap[1],
                   ret |-> CheckUniqueness(heap[1], choice)]
    /\ UNCHANGED <<heap, storage, now, threads>>

NextVerbs == CallCheckUniqueness

SpecVerbs == InitVerbs /\ [][NextVerbs]_vars

\* the leading word of a statement of the call, "" when it has none
LeadingWord(i) ==
    LET words == call.bullets[i]
        rest == IF words # <<>> /\ words[1] = "-" THEN Tail(words) ELSE words
    IN  IF rest = <<>> \/ rest[1] = "..." THEN ""
        ELSE IF rest[1] = "Led," THEN "Led" ELSE rest[1]

\* C18: all_unique is true iff no leading word occurs in two statements;
\* the duplicate entries are, in order, exactly the statements whose
\* leading word occurred earlier, each with the verb, the position of its
\* first use, its own position and an alternative that differs from the
\* verb; unique_verbs plus the number of entries is the number of
\* statements that have a leading word.
C18_VerbUniqueness ==
    call.fn = "check_uniqueness" =>
        LET n == Len(call.bullets)
            leading == {i \in 1..n : LeadingWord(i) # ""}
            later == {i \in leading : \E j \in leading : j < i /\ LeadingWord(j) = LeadingWord(i)}
            d == call.ret.duplicates
        IN  /\ call.ret.all_unique = (later = {})
            /\ Len(d) = Cardinality(later)
            /\ {d[r].duplicate_at : r \in DOMAIN d} = later
            /\ \A r \in DOMAIN d :
                  /\ d[r].verb = LeadingWord(d[r].duplicate_at)
                  /\ d[r].first_use \in leading
                  /\ LeadingWord(d[r].first_use) = d[r].verb
                  /\ \A j \in leading : LeadingWord(j) = d[r].verb => d[r].first_use <= j
                  /\ d[r].suggestion # d[r].verb
                  /\ d[r].suggestion # None
            /\ call.ret.unique_verbs + Len(d) = Cardinality(leading)

C18_Witness ==
    /\ call.fn = "check_uniqueness"
    /\ Len(call.ret.duplicates) = 2
    /\ call.ret.duplicates[2].first_use = 1
    /\ call.ret.duplicates[2].duplicate_at = 3
    /\ call.ret.unique_verbs = 1

\* C19: when the job text matches no keyword of any area, the weight vector
\* is the equal split: every area weighs 1/|areas|.
C19_EqualSplitFallback ==
    /\ (call.fn = "_compute_competency_weights"
        /\ \A a \in Range(AreaOrder) : Mentions(COMPETENCY_AREAS[a].keywords, call.job_description) = 0) =>
           \A a \in Range(AreaOrder) : call.ret.num[a] * Len(AreaOrder) = call.ret.den
    /\ (call.fn = "calculate_competency_weights"
        /\ \A i \in DOMAIN call.competency_areas :
              Mentions(call.competency_areas[i].keywords, call.job_description) = 0) =>
           \A i \in DOMAIN call.ret :
              call.ret[i].weight.num * Len(call.competency_areas) = call.ret[i].weight.den

\* what holds: BulletFramework.calculate_competency_weights falls back to
\* the equal split
C19_CalculateEqualSplit ==
    (call.fn = "calculate_competency_weights"
     /\ \A i \in DOMAIN call.competency_areas :
           Mentions(call.competency_areas[i].keywords, call.job_description) = 0) =>
        /\ Len(call.ret) = Len(call.competency_areas)
        /\ \A i \in DOMAIN call.ret :
              call.ret[i].weight.num * Len(call.competency_areas) = call.ret[i].weight.den

\* BulletLibrary._compute_competency_weights falls back to the base weights
C19_ComputeBaseWeights ==
    (call.fn = "_compute_competency_weights"
     /\ \A a \in Range(AreaOrder) : Mentions(COMPETENCY_AREAS[a].keywords, call.job_description) = 0) =>
        \A a \in Range(AreaOrder) :
            call.ret.num[a] * 100 = COMPETENCY_AREAS[a].weight * call.ret.den

(***************************************************************************)
(* The stage classifiers: BulletFramework.detect_company_stage and         *)
(* SpinningStrategy.suggest_spinning.  A job description is the set of     *)
(* its lowercase words; the terms of the tables are written in lowercase,  *)
(* as the code compares them.                                              *)
(***************************************************************************)
StageOrder == <<"early_stage", "growth_stage", "enterprise">>

\* BulletFramework.SPINNING_KEYWORDS
SPINNING_KEYWORDS ==
    [early_stage |-> <<"agile", "scrappy", "mvp", "iterate", "pivot", "bootstrap",
                       "lean", "rapid", "prototype", "validate", "hustle", "wear many hats">>,
     growth_stage |-> <<"scaled", "10x", "100x", "growth", "expansion", "hypergrowth",
                        "series", "okrs", "kpis", "metrics-driven", "data-driven">>,
     enterprise |-> <<"fortune 500", "enterprise-wide", "global", "compliance",
                      "governance", "stakeholder", "cross-functional", "executive">>]

\* SpinningStrategy.DICTIONARIES: verbs and keywords
DICTIONARIES ==
    [early_stage |->
        [verbs |-> <<"shipped", "validated", "tested", "pivoted", "launched",
                     "iterated", "experimented", "prototyped", "bootstrapped">>,
         keywords |-> <<"mvp", "product-market fit", "iterations", "experiments",
                        "rapid deployment", "lean", "agile", "sprint", "velocity">>],
     growth_stage |->
        [verbs |-> <<"scaled", "optimized", "increased", "expanded", "automated",
                     "streamlined", "accelerated", "grew", "multiplied">>,
         keywords |-> <<"metrics", "kpis", "growth", "efficiency", "scaling",
                        "revenue", "arr", "conversion", "retention", "funnel">>],
     enterprise |->
        [verbs |-> <<"coordinated", "aligned", "ensured", "managed", "governed",
                     "facilitated", "led", "orchestrated", "standardized">>,
         keywords |-> <<"stakeholders", "compliance", "governance", "enterprise",
                        "cross-functional", "strategic alignment", "risk management",
                        "best practices", "frameworks">>]]

StageVocabulary ==
    {"agile", "lean", "seed", "growth", "hypergrowth", "global", "compliance", "finance"}

\* term in jd_lower, for the words of StageVocabulary
TermIn(term, jd_lower) ==
    \E word \in jd_lower : term = word \/ (word = "hypergrowth" /\ term = "growth")

\* any(term in jd_lower for term in terms)
AnyTermIn(terms, jd_lower) == \E term \in terms : TermIn(term, jd_lower)

\* the number of terms of a list found in the text
TermsFound(terms, jd_lower) == Cardinality({i \in DOMAIN terms : TermIn(terms[i], jd_lower)})

\* max(scores, key=scores.get): the first key, in the dict's order, whose
\* score is maximal
MaxStage(scores) ==
    LET top == {i \in DOMAIN StageOrder : \A j \in DOMAIN StageOrder : scores[StageOrder[j]] <= scores[StageOrder[i]]}
    IN  StageOrder[CHOOSE i \in top : \A j \in top : i <= j]

\* BulletFramework.detect_company_stage: the scores
DetectScores(jd_lower) ==
    [early_stage |-> TermsFound(SPINNING_KEYWORDS.early_stage, jd_lower)
                     + (IF AnyTermIn({"seed", "pre-seed", "angel", "small team"}, jd_lower) THEN 3 ELSE 0),
     growth_stage |-> TermsFound(SPINNING_KEYWORDS.growth_stage, jd_lower)
                      + (IF AnyTermIn({"series a", "series b", "series c", "hypergrowth"}, jd_lower) THEN 3 ELSE 0),
     enterprise |-> TermsFound(SPINNING_KEYWORDS.enterprise, jd_lower)
                    + (IF AnyTermIn({"fortune", "global", "multinational", "corporate"}, jd_lower) THEN 3 ELSE 0)]

DetectCompanyStage(job_description) == MaxStage(DetectScores(job_description))

\* SpinningStrategy.suggest_spinning: the scores
SpinningScores(jd_lower) ==
    [early_stage |-> 2 * TermsFound(DICTIONARIES.early_stage.keywords, jd_lower)
                     + TermsFound(DICTIONARIES.early_stage.verbs, jd_lower)
                     + (IF AnyTermIn({"startup", "early", "seed", "pre-revenue"}, jd_lower) THEN 5 ELSE 0),
     growth_stage |-> 2 * TermsFound(DICTIONARIES.growth_stage.keywords, jd_lower)
                      + TermsFound(DICTIONARIES.growth_stage.verbs, jd_lower)
                      + (IF AnyTermIn({"series a", "series b", "growth", "scaling"}, jd_lower) THEN 5 ELSE 0),
     enterprise |-> 2 * TermsFound(DICTIONARIES.enterprise.keywords, jd_lower)
                    + TermsFound(DICTIONARIES.enterprise.verbs, jd_lower)
                    + (IF AnyTermIn({"fortune 500", "enterprise", "global", "compliance"}, jd_lower) THEN 5 ELSE 0)]

SuggestSpinning(job_description) == MaxStage(SpinningScores(job_description))

InitStage ==
    /\ call = NoCall
    /\ \E job \in SUBSET StageVocabulary : heap = <<job>>
    /\ IdleLibrary

CallDetectCompanyStage ==
    /\ call = NoCall
    /\ call' = [fn |-> "detect_company_stage", job_description |-> heap[1],
                scores |-> DetectScores(heap[1]), ret |-> DetectCompanyStage(heap[1])]
    /\ UNCHANGED <<heap, storage, now, threads>>

CallSuggestSpinning ==
    /\ call = NoCall
    /\ call' = [fn |-> "suggest_spinning", job_description |-> heap[1],
                scores |-> SpinningScores(heap[1]), ret |-> SuggestSpinning(heap[1])]
    /\ UNCHANGED <<heap, storage, now, threads>>

NextStage == CallDetectCompanyStage \/ CallSuggestSpinning

SpecStage == InitStage /\ [][NextStage]_vars

StageClassified == call.fn \in {"detect_company_stage", "suggest_spinning"}

\* C20: the stage returned has a maximal score, and among the stages that
\* tie for the maximum growth is preferred to early and early to
\* enterprise, also when no stage has a signal.
C20_MaximalStageGrowthFirst ==
    StageClassified =>
        LET top == {st \in Range(StageOrder) : \A other \in Range(StageOrder) :
                        call.scores[other] <= call.scores[st]}
        IN  /\ call.ret \in top
            /\ call.ret = (IF "growth_stage" \in top THEN "growth_stage"
                           ELSE IF "early_stage" \in top THEN "early_stage"
                           ELSE "enterprise")

\* what holds: the stage returned has a maximal score, and among equals it
\* is the first of early, growth, enterprise
C20_MaximalStageEarlyFirst ==
    StageClassified =>
        LET top == {st \in Range(StageOrder) : \A other \in Range(StageOrder) :
                        call.scores[other] <= call.scores[st]}
        IN  /\ call.ret \in top
            /\ call.ret = (IF "early_stage" \in top THEN "early_stage"
                           ELSE IF "growth_stage" \in top THEN "growth_stage"
                           ELSE "enterprise")

(***************************************************************************)
(* The per-area allocation: BulletLibrary._calculate_distribution called   *)
(* with the weights _compute_competency_weights gives for a job text.      *)
(***************************************************************************)
CallCalculateDistribution ==
    /\ call = NoCall
    /\ \E total \in 1..MaxCount :
          call' = [fn |-> "_calculate_distribution",
                   weights |-> ComputeCompetencyWeights(heap[1].job_description),
                   total |-> total,
                   ret |-> CalculateDistribution(ComputeCompetencyWeights(heap[1].job_description),
                                                 total)]
    /\ UNCHANGED <<heap, storage, now, threads>>

NextDistribution == CallCalculateDistribution

SpecDistribution == InitWeights /\ [][NextDistribution]_vars

Distributed == call.fn = "_calculate_distribution"

\* floor(w_a x N) for the weight of area a normalised by the weights' sum
FloorShare(a) == (call.weights.num[a] * call.total) \div SumOver(call.weights.num)

\* C21: every area gets floor(w x N), the whole remainder N - sum of floors
\* goes to one area of the highest weight, and the allocations sum to N.
C21_RemainderToHighestWeight ==
    Distributed =>
        LET remainder == call.total - SumOver([a \in Range(AreaOrder) |-> FloorShare(a)])
            highest == {a \in Range(AreaOrder) :
                           \A b \in Range(AreaOrder) : call.weights.num[b] <= call.weights.num[a]}
        IN  /\ \E top \in highest :
                  \A a \in Range(AreaOrder) :
                      call.ret[a] = FloorShare(a) + (IF a = top THEN remainder ELSE 0)
            /\ SumOver(call.ret) = call.total

\* what holds: every area gets at least its floor, and the remainder goes to
\* the first area, in the taxonomy's order, of the largest floor; when every
\* floor is 0 nothing is allocated
C21_RemainderToLargestFloor ==
    Distributed =>
        LET remainder == call.total - SumOver([a \in Range(AreaOrder) |-> FloorShare(a)])
            first == CHOOSE i \in DOMAIN AreaOrder :
                        /\ \A j \in DOMAIN AreaOrder : FloorShare(AreaOrder[j]) <= FloorShare(AreaOrder[i])
                        /\ \A j \in 1..(i - 1) : FloorShare(AreaOrder[j]) < FloorShare(AreaOrder[i])
        IN  IF remainder = call.total
            THEN \A a \in Range(AreaOrder) : call.ret[a] = 0
            ELSE /\ \A a \in Range(AreaOrder) :
                       call.ret[a] = FloorShare(a) + (IF a = AreaOrder[first] THEN remainder ELSE 0)
                 /\ SumOver(call.ret) = call.total

\* the allocations sum to N
C21_SumsToTotal == Distributed => SumOver(call.ret) = call.total

(***************************************************************************)
(* Further claims about the validator, checked under SpecValidator.        *)
(***************************************************************************)
\* the five listed kinds of metric: percentage, currency amount,
\* comma-grouped number, K/M/B-scaled number, ratio
ListedKinds == {"pct", "usd", "big", "unit", "ratio"}

\* C22: has_metrics is true only when the assembled text holds one of the
\* five listed kinds; a statement whose only digits are a plain integer has
\* no metric, gets the missing-metric error and is not valid.
C22_PlainIntegerIsNoMetric ==
    Validated =>
        LET text == AssembleBullet(call.before)
        IN  /\ call.ret.has_metrics => \E k \in ListedKinds : HasKind(text, k)
            /\ (HasKind(text, "int") /\ \A k \in ListedKinds : ~HasKind(text, k)) =>
                  /\ ~call.ret.has_metrics
                  /\ \E i \in DOMAIN call.ret.errors : call.ret.errors[i] = "no_metrics"
                  /\ ~call.ret.is_valid

\* what holds: has_metrics is true iff the text holds one of the five
\* listed kinds or a plain integer standing as a word of its own
C22_PlainIntegerCounts ==
    Validated =>
        LET text == AssembleBullet(call.before)
        IN  call.ret.has_metrics = ((\E k \in ListedKinds : HasKind(text, k)) \/ HasPlainNumber(text))

(***************************************************************************)
(* Further claims about the library, checked under SpecLibrary.            *)
(***************************************************************************)
\* C23: while an id stays in the library its usage_count never decreases,
\* whatever the call; add_bullet with an id that is already stored leaves
\* that item's usage_count and last_used as they were.
C23_UsageNeverDecreases ==
    [][\A id \in Keys(storage) \cap Keys(storage') :
          /\ Item(storage', id).usage_count >= Item(storage, id).usage_count
          /\ call'.fn = "add_bullet" =>
                /\ Item(storage', id).usage_count = Item(storage, id).usage_count
                /\ Item(storage', id).last_used = Item(storage, id).last_used]_vars

\* what holds: only a successful add_bullet under the same id lowers a
\* usage_count, and it sets it to 0
C23_OnlyAddResets ==
    [][\A id \in Keys(storage) \cap Keys(storage') :
          Item(storage', id).usage_count < Item(storage, id).usage_count =>
              /\ call'.fn = "add_bullet"
              /\ call'.ret.success
              /\ call'.ret.bullet_id = id
              /\ Item(storage', id).usage_count = 0]_vars

\* C24: a rejected library operation changes nothing.  add_bullet with
\* validate = True on an invalid statement, update_bullet on an unknown id
\* or with an invalid statement, and delete_bullet on an unknown id return
\* success = False (and no other call of theirs does), and the stored items
\* are exactly as before.
C24_RejectedChangesNothing ==
    [][/\ call'.fn = "add_bullet" =>
             call'.ret.success = ~(call'.validate /\ ~call'.bullet_valid)
       /\ call'.fn = "update_bullet" =>
             call'.ret.success = (/\ call'.bullet_id \in Keys(storage)
                                  /\ ~(call'.validate /\ ~call'.bullet_valid))
       /\ call'.fn = "delete_bullet" =>
             call'.ret.success = (call'.bullet_id \in Keys(storage))
       /\ (call'.fn \in {"add_bullet", "update_bullet", "delete_bullet"} /\ ~call'.ret.success) =>
             storage' = storage]_vars

\* C24 witness: update_bullet of a stored, used item rejected for its
\* invalid statement.
C24_Witness ==
    /\ call.fn = "update_bullet"
    /\ ~call.ret.success
    /\ call.bullet_id \in Keys(storage)
    /\ Item(storage, call.bullet_id).usage_count >= 1
    /\ ValidateBullet(Item(storage, call.bullet_id).bullet).is_valid

(***************************************************************************)
(* smart_select called again and again with one criteria on a library      *)
(* that no other call changes: three valid statements, none used yet.      *)
(***************************************************************************)
MaxRepeat == 3

RepeatLibrary ==
    LET a == CHOOSE b \in LibraryBullets : b.id = "a" /\ ValidateBullet(b).is_valid
        u == CHOOSE b \in LibraryBullets : b.id = None
    IN  AddBullet(AddBullet(AddBullet(<<>>, u, TRUE, "u1").storage, a, TRUE, "u1").storage,
                  u, TRUE, "u2").storage

RepeatCriteria ==
    {Criteria(job, stage, count, <<>>, prefer_unused, 0) :
        job \in {{}, {"python", "sql", "roadmap"}}, stage \in {None, "enterprise"},
        count \in 0..4, prefer_unused \in BOOLEAN}

InitRepeat ==
    /\ call = NoCall
    /\ \E criteria \in RepeatCriteria : heap = <<criteria>>
    /\ storage = RepeatLibrary
    /\ now = 0
    /\ threads = <<>>

CallSmartSelectAgain ==
    /\ \A i \in DOMAIN storage : storage[i].usage_count < MaxRepeat
    /\ \E t \in now..MaxTime :
        LET r == SmartSelect(storage, heap[1], t)
        IN  /\ storage' = r.storage
            /\ now' = t
            /\ call' = [fn |-> "smart_select", criteria |-> heap[1], ret |-> r.ret]
            /\ UNCHANGED <<heap, threads>>

NextRepeat == CallSmartSelectAgain

SpecRepeat == InitRepeat /\ [][NextRepeat]_vars

\* the relevance smart_select computes for a stored item under the criteria
RelevanceOf(item) ==
    CalculateRelevance(item.bullet, ExtractCompetencies(heap[1].job_description),
                       heap[1].company_stage)

\* the items the criteria's filters let through
ListedIds ==
    Keys(ListBullets(storage, None, heap[1].company_stage, heap[1].min_quality_score))

\* C25: with prefer_unused, after any number of calls with the same
\* criteria the usage_counts of two listed items of the same relevance
\* differ by at most 1.
C25_UsageSpreadEvenly ==
    heap[1].prefer_unused =>
        \A i, j \in DOMAIN storage :
            (/\ storage[i].id \in ListedIds /\ storage[j].id \in ListedIds
             /\ RelevanceOf(storage[i]) = RelevanceOf(storage[j])) =>
                storage[i].usage_count - storage[j].usage_count <= 1

\* C25 witness: three items of the same relevance, selected one per call,
\* after four calls.
C25_Witness ==
    /\ heap[1].prefer_unused
    /\ heap[1].count = 1
    /\ call.fn = "smart_select"
    /\ \A i, j \in DOMAIN storage : RelevanceOf(storage[i]) = RelevanceOf(storage[j])
    /\ Cardinality(ListedIds) = 3
    /\ SumSeq([i \in DOMAIN storage |-> storage[i].usage_count]) = 4

(***************************************************************************)
(* validate_bullet: the errors list against the verdict.                   *)
(***************************************************************************)
\* C26: whenever validate_bullet returns is_valid = true its errors list is
\* empty.
C26_ValidHasNoErrors ==
    Validated => (call.ret.is_valid => call.ret.errors = <<>>)

\* what the code keeps: a valid statement has no error but, possibly, the one
\* of _check_result_has_metrics, which is_valid does not look at
C26_ValidHasOnlyResultError ==
    Validated => (call.ret.is_valid => call.ret.errors \in {<<>>, <<"result_no_metrics">>})

\* a valid statement is returned together with an error
C26_ValidWithError ==
    Validated /\ call.ret.is_valid /\ call.ret.errors = <<"result_no_metrics">>

(***************************************************************************)
(* JDAssessor.assess: interest level and decision.  The job text is the    *)
(* set of its words; fit_score is min(100, int(weighted_score)) of         *)
(* non-negative terms, taken here as any value of its range.               *)
(***************************************************************************)
high_interest_keywords == <<"remote", "leadership", "0-to-1", "founding", "growth">>

InterestVocabulary == {"remote", "leadership", "0-to-1", "founding", "growth", "hypergrowth", "python"}

\* the interest level with a baseline of 5
CalculateInterestLevel_Base5(jd_lower) ==
    Min2(10, 5 + TermsFound(high_interest_keywords, jd_lower))

\* _calculate_interest_level
CalculateInterestLevel(jd_lower) ==
    Min2(10, 7 + TermsFound(high_interest_keywords, jd_lower))

InitInterest ==
    /\ call = NoCall
    /\ \E jd_lower \in SUBSET InterestVocabulary : heap = <<jd_lower>>
    /\ IdleLibrary

\* assess, lines 200 and 225-241
CallJDAssess ==
    /\ \E fit_score \in FitScores :
         call' = [fn |-> "JDAssessor.assess", jd_lower |-> heap[1],
                  ret |-> [fit_score |-> fit_score,
                           interest_level |-> CalculateInterestLevel(heap[1]),
                           decision |-> DetermineDecision(fit_score,
                                                          CalculateInterestLevel(heap[1]))]]
    /\ UNCHANGED <<heap, storage, now, threads>>

NextInterest == CallJDAssess

SpecInterest == InitInterest /\ [][NextInterest]_vars

JDAssessed == call.fn = "JDAssessor.assess"

\* C27: JDAssessor.assess never returns ARCHIVE: interest_level is 7 plus
\* the number of high-signal phrases found, capped at 10, so it is between
\* 7 and 10 and the decision is PROCEED when fit_score >= 85 and
\* interest_level >= 8 and PRESENT otherwise.
C27_NeverArchive ==
    JDAssessed =>
        LET found == Cardinality({i \in DOMAIN high_interest_keywords :
                         \E word \in call.jd_lower :
                            \/ word = high_interest_keywords[i]
                            \/ word = "hypergrowth" /\ high_interest_keywords[i] = "growth"})
            proceed == call.ret.fit_score >= 85 /\ call.ret.interest_level >= 8
        IN  /\ call.ret.interest_level = (IF 7 + found > 10 THEN 10 ELSE 7 + found)
            /\ call.ret.interest_level \in 7..10
            /\ call.ret.decision # ARCHIVE
            /\ call.ret.decision = (IF proceed THEN PROCEED ELSE PRESENT)

\* C27 witness: a job text with none of the phrases and a fit score under
\* 75: the PROCEED condition fails and the decision is PRESENT.
C27_Witness ==
    /\ JDAssessed
    /\ call.jd_lower = {"python"}
    /\ call.ret.fit_score = 0
    /\ call.ret.interest_level = 7
    /\ call.ret.decision = PRESENT

\* every phrase found: the level is capped at 10
C27_Capped ==
    JDAssessed /\ call.jd_lower = InterestVocabulary /\ call.ret.interest_level = 10

(***************************************************************************)
(* ApplicationOrchestrator.run_full_pipeline.  The coroutine has one await *)
(* (the cover letter), which raises before it suspends, so a call runs     *)
(* from its first line to its return without interleaving.                 *)
(***************************************************************************)
\* the steps in the order of the code: the name given to _log_step and the
\* key of results the step assigns
PipelineSteps ==
    <<[name |-> "JD Assessment", key |-> "assessment"],
      [name |-> "Bullet Selection", key |-> "selected_bullets"],
      [name |-> "Resume Tailoring", key |-> "tailored_resume"],
      [name |-> "Resume Verification", key |-> "resume_verification"],
      [name |-> "Cover Letter", key |-> "cover_letter"],
      [name |-> "CL Verification", key |-> "cl_verification"],
      [name |-> "Outreach Strategy", key |-> "outreach"]>>

\* the call of step k raises: JDAssessor.assess on a None job description
\* (.lower()) or resume (.get); select_for_job on a None library or a None
\* entry of it; resume_data.copy() on a None resume; ResumeVerifier.verify
\* on a None resume or experience entry;
\* CoverLetterService.generate always, AIService having no generate_text
\* (cover_letter_service.py line 47, re-raised at 62-64)
StepRaises(k, input) ==
    CASE k = 1 -> input.job_description = Absent \/ input.resume_data = Absent
      [] k = 2 -> \/ input.bullet_library = Absent
                  \/ \E i \in DOMAIN input.bullet_library.items :
                        input.bullet_library.items[i] = Absent
      [] k = 3 -> input.resume_data = Absent
      [] k = 4 -> \/ input.resume_data = Absent
                  \/ \E i \in DOMAIN input.resume_data.experience :
                        input.resume_data.experience[i] = Absent
      [] k = 5 -> TRUE
      [] OTHER -> FALSE

\* str(e) of the exception step k raises
StepError(k, input) ==
    CASE k = 1 -> IF input.job_description = Absent
                  THEN "'NoneType' object has no attribute 'lower'"
                  ELSE "'NoneType' object has no attribute 'get'"
      [] k = 2 -> IF input.bullet_library = Absent
                  THEN "'NoneType' object is not iterable"
                  ELSE "'NoneType' object has no attribute 'get'"
      [] k = 3 -> "'NoneType' object has no attribute 'copy'"
      [] k = 4 -> "'NoneType' object has no attribute 'get'"
      [] k = 5 -> "'AIService' object has no attribute 'generate_text'"
      [] OTHER -> ""

\* _log_step
LogStep(results, name) == [results EXCEPT !.steps = Append(@, name)]

\* an except clause that records the error and leaves the status
HandleException_StatusKept(results, e) ==
    [results EXCEPT !.error = e]

\* the except clause, lines 86-90
HandleException(results, e) ==
    [results EXCEPT !.status = "failed", !.error = e]

\* the try block from step k on, lines 39-84
RECURSIVE RunSteps(_, _, _)
RunSteps(k, results, input) ==
    IF k > Len(PipelineSteps) THEN [results EXCEPT !.status = "completed"]
    ELSE LET logged == LogStep(results, PipelineSteps[k].name)
         IN  IF StepRaises(k, input) THEN HandleException(logged, StepError(k, input))
             ELSE RunSteps(k + 1,
                           [logged EXCEPT !.keys = Append(@, PipelineSteps[k].key)],
                           input)

\* run_full_pipeline
RunFullPipeline(input) ==
    RunSteps(1, [status |-> "in_progress", steps |-> <<>>, keys |-> <<>>, error |-> None],
             input)

PipelineInputs ==
    [job_description : {Absent, [words |-> {}], [words |-> {"python", "remote"}]},
     resume_data : {Absent, [experience |-> <<>>], [experience |-> <<Absent>>],
                    [experience |-> <<[bullets |-> <<>>]>>]},
     bullet_library : {Absent, [items |-> <<>>], [items |-> <<Absent>>],
                       [items |-> <<[text |-> "Led"]>>],
                       [items |-> <<[text |-> "Led"], Absent>>]}]

InitPipeline ==
    /\ call = NoCall
    /\ \E input \in PipelineInputs : heap = <<input>>
    /\ IdleLibrary

CallRunFullPipeline ==
    /\ call = NoCall
    /\ call' = [fn |-> "run_full_pipeline", input |-> heap[1], raised |-> FALSE,
                ret |-> RunFullPipeline(heap[1])]
    /\ UNCHANGED <<heap, storage, now, threads>>

NextPipeline == CallRunFullPipeline

SpecPipeline == InitPipeline /\ [][NextPipeline]_vars

PipelineRan == call.fn = "run_full_pipeline"

\* the steps that raise on the call's input
RaisingSteps == {k \in DOMAIN PipelineSteps : StepRaises(k, call.input)}

\* C28: run_full_pipeline never raises and returns status completed or
\* failed; the steps logged are a prefix of the fixed order; status is
\* completed iff no step raised; when a step raises, status is failed, an
\* error is recorded, the raising step is the last one logged and the
\* results of every earlier step are kept.
C28_PipelineEndsCompletedOrFailed ==
    PipelineRan =>
        LET r == call.ret
            n == Len(r.steps)
        IN  /\ ~call.raised
            /\ r.status \in {"completed", "failed"}
            /\ n \in 1..Len(PipelineSteps)
            /\ \A k \in 1..n : r.steps[k] = PipelineSteps[k].name
            /\ (r.status = "completed") <=> (RaisingSteps = {})
            /\ r.status = "completed" =>
                   /\ n = Len(PipelineSteps) /\ Len(r.keys) = n /\ r.error = None
            /\ r.status = "failed" =>
                   /\ r.error # None
                   /\ n \in RaisingSteps
                   /\ \A k \in RaisingSteps : n <= k
                   /\ Len(r.keys) = n - 1
                   /\ \A k \in 1..(n - 1) : r.keys[k] = PipelineSteps[k].key

\* C28 witness: cover-letter generation raises after four steps went
\* through.
C28_Witness ==
    /\ PipelineRan
    /\ call.ret.status = "failed"
    /\ call.ret.steps = <<"JD Assessment", "Bullet Selection", "Resume Tailoring",
                          "Resume Verification", "Cover Letter">>
    /\ call.ret.keys = <<"assessment", "selected_bullets", "tailored_resume",
                         "resume_verification">>
    /\ call.ret.error = "'AIService' object has no attribute 'generate_text'"

\* cover-letter generation raises on every input, so no call ends completed
C28_NeverCompleted == PipelineRan => call.ret.status = "failed"

(***************************************************************************)
(* RateLimiter (middleware.py).  heap[1] is the limiter object, now the    *)
(* clock in seconds, and storage the history of the is_allowed calls made  *)
(* (client, time, answer), which the code does not keep.                   *)
(***************************************************************************)
WindowSeconds == 60
StaleSeconds == 120
CleanupSeconds == 300

MaxRate == 2
MaxCalls == 4

Clients == {"10.0.0.1", "unknown"}

\* the times the clock advances by between two calls
ClockSteps == {0, 1, WindowSeconds - 1, WindowSeconds, CleanupSeconds + 1}

\* self.requests[client_id] of a defaultdict(list)
RequestsOf(requests, client_id) ==
    IF client_id \in DOMAIN requests THEN requests[client_id] ELSE <<>>

\* the times of a list later than the cutoff
LaterThan(times, cutoff) == SelectSeq(times, LAMBDA t : t > cutoff)

\* _cleanup: the keys with no time in the last two minutes are deleted
Cleanup(requests, t) ==
    LET keys_to_remove == {key \in DOMAIN requests :
                              LaterThan(requests[key], t - StaleSeconds) = <<>>}
    IN  [key \in DOMAIN requests \ keys_to_remove |-> requests[key]]

\* is_allowed with the request recorded before the limit is checked
IsAllowed_RecordAll(self, client_id, t) ==
    LET cleanup == t - self.last_cleanup > CleanupSeconds
        cleaned == IF cleanup THEN Cleanup(self.requests, t) ELSE self.requests
        recent == Append(LaterThan(RequestsOf(cleaned, client_id), t - WindowSeconds), t)
    IN  [ret |-> ~(Len(recent) > self.requests_per_minute),
         cleanup |-> cleanup,
         removed |-> DOMAIN self.requests \ DOMAIN cleaned,
         self |-> [self EXCEPT
                     !.last_cleanup = IF cleanup THEN t ELSE @,
                     !.requests = [key \in DOMAIN cleaned \cup {client_id} |->
                                       IF key = client_id THEN recent ELSE cleaned[key]]]]

\* RateLimiter.is_allowed at clock time t
IsAllowed(self, client_id, t) ==
    LET cleanup == t - self.last_cleanup > CleanupSeconds
        cleaned == IF cleanup THEN Cleanup(self.requests, t) ELSE self.requests
        recent == LaterThan(RequestsOf(cleaned, client_id), t - WindowSeconds)
        limited == Len(recent) >= self.requests_per_minute
    IN  [ret |-> ~limited,
         cleanup |-> cleanup,
         removed |-> DOMAIN self.requests \ DOMAIN cleaned,
         self |-> [self EXCEPT
                     !.last_cleanup = IF cleanup THEN t ELSE @,
                     !.requests = [key \in DOMAIN cleaned \cup {client_id} |->
                                       IF key = client_id
                                       THEN (IF limited THEN recent ELSE Append(recent, t))
                                       ELSE cleaned[key]]]]

\* RateLimiter(requests_per_minute), constructed at time 0
InitLimiter ==
    /\ call = NoCall
    /\ \E requests_per_minute \in 1..MaxRate :
          heap = <<[requests_per_minute |-> requests_per_minute, requests |-> <<>>,
                    last_cleanup |-> 0]>>
    /\ storage = <<>>
    /\ now = 0
    /\ threads = <<>>

CallIsAllowed ==
    /\ Len(storage) < MaxCalls
    /\ \E client_id \in Clients, step \in ClockSteps :
        LET r == IsAllowed(heap[1], client_id, now + step)
        IN  /\ now' = now + step
            /\ heap' = <<r.self>>
            /\ call' = [fn |-> "is_allowed", client_id |-> client_id, cleanup |-> r.cleanup,
                        removed |-> r.removed, ret |-> r.ret]
            /\ storage' = Append(storage, [client_id |-> client_id, time |-> now + step,
                                           answer |-> r.ret])
    /\ UNCHANGED threads

NextLimiter == CallIsAllowed

SpecLimiter == InitLimiter /\ [][NextLimiter]_vars

\* the calls before call i, or up to it, of the same client that were
\* answered True less than 60 seconds before call i
AdmittedBefore(i, upto) ==
    {j \in 1..upto : /\ storage[j].client_id = storage[i].client_id
                     /\ storage[j].answer
                     /\ storage[j].time > storage[i].time - WindowSeconds}

\* C29: among a client's calls, those answered True within a 60-second
\* window are at most requests_per_minute, and each answer depends only on
\* the client's own earlier calls answered True in the last 60 seconds:
\* not on calls answered False, other clients' calls or the cleanup.
C29_WindowLimit ==
    \A i \in DOMAIN storage :
        /\ storage[i].answer =
              (Cardinality(AdmittedBefore(i, i - 1)) < heap[1].requests_per_minute)
        /\ storage[i].answer =>
              Cardinality(AdmittedBefore(i, i)) <= heap[1].requests_per_minute

\* C29 witness: a client is answered True, then False, then True again less
\* than 60 seconds after the refusal, and a later call runs the cleanup,
\* which deletes a key.
C29_Witness ==
    /\ call.fn = "is_allowed"
    /\ call.cleanup
    /\ call.removed # {}
    /\ \E i, j, k \in DOMAIN storage :
          /\ i < j /\ j < k
          /\ storage[i].client_id = storage[j].client_id
          /\ storage[j].client_id = storage[k].client_id
          /\ storage[i].answer /\ ~storage[j].answer /\ storage[k].answer
          /\ storage[k].time - storage[j].time < WindowSeconds

(***************************************************************************)
(* auto_fix_bullet on statements whose outcome and impact parts are about  *)
(* 20 characters long and whose text is about 260 characters long.         *)
(***************************************************************************)
TrimBullets ==
    {SixPointBullet(<<Tok("strong", 3)>>, <<Txt(160 + d)>>, <<Txt(14)>>,
                    <<Txt(12), Sp(1), Tok("pct", 3)>>, <<Txt(i)>>, <<Txt(o)>>) :
        d \in 0..MaxPad, i \in {20, 21, 22, 25, 28}, o \in {20, 21, 22, 23, 24}}

InitTrim ==
    /\ call = NoCall
    /\ \E b \in TrimBullets : heap = [r \in Refs |-> IF r = 1 THEN b ELSE Absent]
    /\ IdleLibrary

NextTrim == CallAutoFixBullet

SpecTrim == InitTrim /\ [][NextTrim]_vars

FixProposed == AutoFixed /\ ~call.ret.raised

\* C30: the proposal of auto_fix_bullet is never longer than the original;
\* action, context, method and result are the original's; outcome is
\* trimmed first and impact only if the text is still over 260 characters.
C30_ProposalNotLonger ==
    FixProposed =>
        LET fixed == heap[call.ret.fixed]
            original == call.before
        IN  /\ StrLen(AssembleBullet(fixed)) <= StrLen(AssembleBullet(original))
            /\ fixed.action = original.action /\ fixed.context = original.context
            /\ fixed.method = original.method /\ fixed.result = original.result
            /\ fixed.impact # original.impact =>
                  StrLen(AssembleBullet([original EXCEPT !.outcome = fixed.outcome]))
                      > MAX_CHARS

\* what the code keeps: only outcome and impact change, outcome first,
\* impact only if the text with the new outcome is still over 260
\* characters, and a changed part is its first 20 characters and "..."
C30_OnlyOutcomeAndImpact ==
    FixProposed =>
        LET fixed == heap[call.ret.fixed]
            original == call.before
        IN  /\ fixed.action = original.action /\ fixed.context = original.context
            /\ fixed.method = original.method /\ fixed.result = original.result
            /\ fixed.outcome \in {original.outcome, Trimmed(original.outcome)}
            /\ fixed.impact \in {original.impact, Trimmed(original.impact)}
            /\ fixed.impact # original.impact =>
                  StrLen(AssembleBullet([original EXCEPT !.outcome = fixed.outcome]))
                      > MAX_CHARS

\* a proposal longer than the original
C30_Longer ==
    /\ FixProposed
    /\ StrLen(AssembleBullet(heap[call.ret.fixed])) > StrLen(AssembleBullet(call.before))

====
